---------------------------- MODULE Spec2Model ----------------------------
(***************************************************************************)
(* Model of the distributed block vector TACSBVec (src/bpmat/BVec.c).      *)
(*                                                                         *)
(* Every rank of the communicator holds the three arrays x (owned),        *)
(* x_ext (ghost) and x_dep (dependent) of one vector.  TacsScalar values   *)
(* are modelled by integers (exact arithmetic), C arrays by sequences     *)
(* read through At (0-based).  The distribution plan TACSBVecDistribute    *)
(* and the index set TACSBVecIndices live outside BVec.c; their four       *)
(* exchange operations and findIndex are modelled from their contract.     *)
(***************************************************************************)
EXTENDS Integers, Sequences, FiniteSets, TLC

(***************************************************************************)
(* Bounds of the model                                                     *)
(***************************************************************************)
\* scalars passed to setValues/set/scale are drawn from 1..MaxVal
MaxVal == 1
\* local (non collective) calls made by all ranks together
MaxLocalOps == 2
\* collective begin/end pairs made by one rank
MaxCollectives == 2

(***************************************************************************)
(* The communicator, the owner map, the ghost index sets and the           *)
(* dependent node tables the vector is constructed against                 *)
(***************************************************************************)
mpi_size == 3
bsize == 2
Ranks == 0 .. (mpi_size - 1)

\* 0-based read of a C array held as a sequence
At(a, i) == a[i + 1]

\* rank r owns the nodes owner_range[r] .. owner_range[r+1]-1
owner_range == <<0, 2, 4, 5>>

\* the sorted ghost nodes of every rank (ext_dist->getIndices())
ext_indices == [r \in Ranks |-> CASE r = 0 -> <<3>>
                                  [] r = 1 -> <<0>>
                                  [] OTHER -> <<0, 3>>]

\* ranks constructed with a dependent node table (dep_nodes != NULL)
dep_nodes == [r \in Ranks |-> r = 0]
\* getDepNodes: rank 0 has one dependent node, -1, with parents 0 (owned)
\* and 3 (ghost)
ndep == [r \in Ranks |-> IF dep_nodes[r] THEN 1 ELSE 0]
dep_ptr == [r \in Ranks |-> IF dep_nodes[r] THEN <<0, 2>> ELSE <<0>>]
dep_conn == [r \in Ranks |-> IF dep_nodes[r] THEN <<0, 3>> ELSE <<>>]
dep_weights == [r \in Ranks |-> IF dep_nodes[r] THEN <<1, 2>> ELSE <<>>]

INSERT_VALUES == "INSERT_VALUES"
ADD_VALUES == "ADD_VALUES"
Ops == {INSERT_VALUES, ADD_VALUES}

\* index[i] is owned by rank r (the test of setValues, getValues, begin-
\* SetValues and endDistributeValues)
IsOwned(r, g) == g >= At(owner_range, r) /\ g < At(owner_range, r + 1)

\* sizes fixed by the constructor
size == [r \in Ranks |-> bsize * (At(owner_range, r + 1) - At(owner_range, r))]
ext_size == [r \in Ranks |-> bsize * Len(ext_indices[r])]
dep_size == [r \in Ranks |-> bsize * ndep[r]]

\* TACSBVecIndices::findIndex: the 0-based position of g in the sorted list
findIndex(r, g) ==
  IF \E j \in 1 .. Len(ext_indices[r]) : ext_indices[r][j] = g
  THEN (CHOOSE j \in 1 .. Len(ext_indices[r]) : ext_indices[r][j] = g) - 1
  ELSE -1

Zeros(n) == [j \in 1 .. n |-> 0]
IsZero(a) == \A j \in DOMAIN a : a[j] = 0

\* the bsize entries of array a that start at 0-based offset off
Block(a, off) == [k \in 1 .. bsize |-> a[off + k]]

(***************************************************************************)
(* setValues                                                               *)
(***************************************************************************)
\* y[0] = vals[0] for k < bsize
InsertBlock(a, off, blk) ==
  [j \in DOMAIN a |-> IF j > off /\ j <= off + bsize THEN blk[j - off] ELSE a[j]]

\* y[0] += vals[0] for k < bsize
AddBlock(a, off, blk) ==
  [j \in DOMAIN a |-> IF j > off /\ j <= off + bsize THEN a[j] + blk[j - off] ELSE a[j]]

\* setValuesLoop with the two branches of the ghost case swapped for the
\* owned case's: ADD_VALUES on a ghost node overwrites (seeded fault)
RECURSIVE setValuesLoop_GhostInsert(_, _, _, _, _, _)
setValuesLoop_GhostInsert(r, i, index, vals, op, A) ==
  IF i > Len(index) THEN A
  ELSE LET g == index[i]
           blk == vals[i]
           A1 == IF IsOwned(r, g)
                 THEN LET x_index == bsize * (g - At(owner_range, r))
                      IN  [A EXCEPT !.x = IF op = INSERT_VALUES
                                          THEN InsertBlock(A.x, x_index, blk)
                                          ELSE AddBlock(A.x, x_index, blk)]
                 ELSE IF g < 0
                 THEN LET dep_index == -bsize * (g + 1)
                      IN  [A EXCEPT !.x_dep = IF op = INSERT_VALUES
                                              THEN InsertBlock(A.x_dep, dep_index, blk)
                                              ELSE AddBlock(A.x_dep, dep_index, blk)]
                 ELSE LET ext_index == bsize * findIndex(r, g)
                      IN  [A EXCEPT !.x_ext = InsertBlock(A.x_ext, ext_index, blk)]
       IN  setValuesLoop_GhostInsert(r, i + 1, index, vals, op, A1)

\* the loop of setValues from position i (1-based) of index on; vals is the
\* sequence of blocks, A the arrays [x, x_ext, x_dep] of rank r
RECURSIVE setValuesLoop(_, _, _, _, _, _)
setValuesLoop(r, i, index, vals, op, A) ==
  IF i > Len(index) THEN A
  ELSE LET g == index[i]
           blk == vals[i]
           A1 == IF IsOwned(r, g)
                 THEN LET x_index == bsize * (g - At(owner_range, r))
                      IN  [A EXCEPT !.x = IF op = INSERT_VALUES
                                          THEN InsertBlock(A.x, x_index, blk)
                                          ELSE AddBlock(A.x, x_index, blk)]
                 ELSE IF g < 0
                 THEN LET dep_index == -bsize * (g + 1)
                      IN  [A EXCEPT !.x_dep = IF op = INSERT_VALUES
                                              THEN InsertBlock(A.x_dep, dep_index, blk)
                                              ELSE AddBlock(A.x_dep, dep_index, blk)]
                 ELSE LET ext_index == bsize * findIndex(r, g)
                      IN  \* both branches of the source add
                          [A EXCEPT !.x_ext = IF op = INSERT_VALUES
                                              THEN AddBlock(A.x_ext, ext_index, blk)
                                              ELSE AddBlock(A.x_ext, ext_index, blk)]
       IN  setValuesLoop(r, i + 1, index, vals, op, A1)


(***************************************************************************)
(* State                                                                   *)
(***************************************************************************)
VARIABLES
  x,        \* x[r]: the owned values of rank r
  x_ext,    \* x_ext[r]: the ghost values of rank r
  x_dep,    \* x_dep[r]: the dependent values of rank r
  pc,       \* pc[r]: "idle", or the begin/end window rank r is inside
  chan,     \* chan[<<s, q>>]: blocks posted by s for q, in posting order
  order,    \* the collectives in the one global order every rank follows
  cpos,     \* cpos[r]: collectives rank r has begun
  nops,     \* local calls made so far, by all ranks
  lastOp,   \* lastOp[r]: the call that returned last on rank r
  pre,      \* pre[r]: arrays and arguments of rank r at entry of that call
  hist,     \* hist[r]: one record per collective begun by rank r
  lastMod,  \* lastMod[r]: value of cpos[r] when x[r] last changed
  ghostLog  \* ghostLog[r]: what was written to x_ext[r] since it was zeroed

\* state of the parts of BVec.c outside the assembly protocol; each is used
\* by the specification of its part and left at Unused by the others
VARIABLES
  peer,     \* peer[r]: the arrays of the vector passed to dot, axpy, ..
  ret,      \* ret[r]: what the last call on rank r returned or wrote out
  file,     \* the file written by writeToFile and read by readFromFile
  bcmap,    \* the TACSBcMap object
  rng,      \* rng[r]: the state of rand() in the process of rank r
  heap      \* the reference counts of the collaborators, and the vectors

vars == <<x, x_ext, x_dep, pc, chan, order, cpos, nops, lastOp, pre, hist,
          lastMod, ghostLog, peer, ret, file, bcmap, rng, heap>>

\* the variables of the assembly protocol only
protoVars == <<pc, chan, order, cpos, hist, lastMod, ghostLog>>
\* the variables of the other parts
otherVars == <<peer, ret, file, bcmap, rng, heap>>

Unused == <<>>

Arrays(r) == [x |-> x[r], x_ext |-> x_ext[r], x_dep |-> x_dep[r]]

OwnedNodes(r) == At(owner_range, r) .. (At(owner_range, r + 1) - 1)
GhostNodes(r) == {ext_indices[r][j] : j \in 1 .. Len(ext_indices[r])}
DepIndices(r) == {-i - 1 : i \in 0 .. (ndep[r] - 1)}
Owner(g) == CHOOSE q \in Ranks : IsOwned(q, g)

\* ranks that hold ghosts of nodes owned by q / owners of the ghosts of s
GhostersOf(q) == {s \in Ranks \ {q} : \E g \in GhostNodes(s) : IsOwned(q, g)}
OwnersFor(s) == {q \in Ranks \ {s} : \E g \in GhostNodes(s) : IsOwned(q, g)}

NoArgs == [index |-> <<>>, vals |-> <<>>, op |-> "none"]
ZeroLog(r) == [touched |-> FALSE, onlyAdd |-> TRUE, sum |-> Zeros(ext_size[r])]

(***************************************************************************)
(* TACSBVec::TACSBVec                                                      *)
(***************************************************************************)
Init ==
  /\ x = [r \in Ranks |-> Zeros(size[r])]
  /\ x_ext = [r \in Ranks |-> Zeros(ext_size[r])]
  /\ x_dep = [r \in Ranks |-> Zeros(dep_size[r])]
  /\ pc = [r \in Ranks |-> "idle"]
  /\ chan = [p \in Ranks \X Ranks |-> <<>>]
  /\ order = <<>>
  /\ cpos = [r \in Ranks |-> 0]
  /\ nops = 0
  /\ lastOp = [r \in Ranks |-> "construct"]
  /\ pre = [r \in Ranks |-> [x |-> <<>>, x_ext |-> <<>>, x_dep |-> <<>>,
                             args |-> NoArgs]]
  /\ hist = [r \in Ranks |-> <<>>]
  /\ lastMod = [r \in Ranks |-> 0]
  /\ ghostLog = [r \in Ranks |-> ZeroLog(r)]
  /\ peer = Unused /\ ret = Unused /\ file = Unused
  /\ bcmap = Unused /\ rng = Unused /\ heap = Unused

\* bookkeeping shared by the local calls of rank r, whose new arrays are A
LocalCall(r, name, args, A, log) ==
  /\ pc[r] = "idle"
  /\ nops < MaxLocalOps
  /\ x' = [x EXCEPT ![r] = A.x]
  /\ x_ext' = [x_ext EXCEPT ![r] = A.x_ext]
  /\ x_dep' = [x_dep EXCEPT ![r] = A.x_dep]
  /\ nops' = nops + 1
  /\ lastOp' = [lastOp EXCEPT ![r] = name]
  /\ pre' = [pre EXCEPT ![r] = [x |-> x[r], x_ext |-> x_ext[r],
                                x_dep |-> x_dep[r], args |-> args]]
  /\ lastMod' = [lastMod EXCEPT ![r] = IF A.x # x[r] THEN cpos[r] ELSE @]
  /\ ghostLog' = [ghostLog EXCEPT ![r] = log]
  /\ UNCHANGED <<pc, chan, order, cpos, hist>>
  /\ UNCHANGED otherVars

(***************************************************************************)
(* Local calls                                                             *)
(***************************************************************************)
\* the blocks a caller passes: (v, 2v, ..)
Blocks == {[k \in 1 .. bsize |-> v * k] : v \in 1 .. MaxVal}
ValidIndex(r) == OwnedNodes(r) \cup GhostNodes(r) \cup DepIndices(r)

\* sum of the blocks of vals deposited on ghost nodes, per ghost slot
RECURSIVE GhostDeposits(_, _, _, _, _)
GhostDeposits(r, i, index, vals, acc) ==
  IF i > Len(index) THEN acc
  ELSE GhostDeposits(r, i + 1, index, vals,
         IF index[i] \in GhostNodes(r)
         THEN AddBlock(acc, bsize * findIndex(r, index[i]), vals[i])
         ELSE acc)

setValues(r, index, vals, op) ==
  LET hitsGhost == \E i \in 1 .. Len(index) : index[i] \in GhostNodes(r)
      log == IF hitsGhost
             THEN [touched |-> TRUE,
                   onlyAdd |-> ghostLog[r].onlyAdd /\ op = ADD_VALUES,
                   sum |-> GhostDeposits(r, 1, index, vals, ghostLog[r].sum)]
             ELSE ghostLog[r]
  IN  LocalCall(r, "setValues", [index |-> index, vals |-> vals, op |-> op],
                setValuesLoop(r, 1, index, vals, op, Arrays(r)), log)

\* zeroEntries that forgets the ghost array (seeded fault)
zeroEntries_LocalOnly(r) ==
  LocalCall(r, "zeroEntries", NoArgs,
            [x |-> Zeros(size[r]),
             x_ext |-> x_ext[r],
             x_dep |-> IF dep_nodes[r] THEN Zeros(dep_size[r]) ELSE x_dep[r]],
            ZeroLog(r))

zeroEntries(r) ==
  LocalCall(r, "zeroEntries", NoArgs,
            [x |-> Zeros(size[r]),
             x_ext |-> Zeros(ext_size[r]),
             x_dep |-> IF dep_nodes[r] THEN Zeros(dep_size[r]) ELSE x_dep[r]],
            ZeroLog(r))

set(r, val) ==
  LocalCall(r, "set", [NoArgs EXCEPT !.vals = <<val>>],
            [Arrays(r) EXCEPT !.x = [j \in 1 .. size[r] |-> val]],
            ghostLog[r])

scale(r, alpha) ==
  LocalCall(r, "scale", [NoArgs EXCEPT !.vals = <<alpha>>],
            [Arrays(r) EXCEPT !.x = [j \in 1 .. size[r] |-> alpha * x[r][j]]],
            ghostLog[r])

(***************************************************************************)
(* The distribution plan (TACSBVecDistribute), from its contract           *)
(***************************************************************************)
\* every rank is constructed with a plan (ext_dist != NULL)
ext_dist == [r \in Ranks |-> TRUE]

\* the blocks of array a of rank s, one per ghost node of s owned by q
GhostBlocksFor(s, q, a) ==
  [g \in {h \in GhostNodes(s) : IsOwned(q, h)} |->
     Block(a, bsize * findIndex(s, g))]

\* the owned blocks of rank q that rank s holds ghosts of
OwnedBlocksFor(q, s, a) ==
  [g \in {h \in GhostNodes(s) : IsOwned(q, h)} |->
     Block(a, bsize * (g - At(owner_range, q)))]

\* post one message to every rank of DOMAIN data; data[q] is the payload for q
Post(c, s, seq, data) ==
  [p \in Ranks \X Ranks |->
     IF p[1] = s /\ p[2] \in DOMAIN data
     THEN Append(c[p], [seq |-> seq, data |-> data[p[2]]])
     ELSE c[p]]

\* the messages of collective seq from every rank of srcs have reached q
Arrived(q, srcs, seq) ==
  \A s \in srcs : Len(chan[<<s, q>>]) > 0 /\ Head(chan[<<s, q>>]).seq = seq

\* remove the head message of every rank of srcs from the channels to q
Consume(c, q, srcs) ==
  [p \in Ranks \X Ranks |->
     IF p[2] = q /\ p[1] \in srcs THEN Tail(c[p]) ELSE c[p]]

\* the orders in which the messages of the ranks of S can be combined
Orders(S) ==
  {f \in [1 .. Cardinality(S) -> S] : \A i, j \in DOMAIN f : f[i] = f[j] => i = j}

\* beginReverse(ctx, x_ext, x, op): post the ghost blocks to their owners
beginReverse(c, s, seq, XE) ==
  Post(c, s, seq, [q \in OwnersFor(s) |-> GhostBlocksFor(s, q, XE)])

\* combine the blocks of one message into the owned array X of rank q
RevCombine(q, X, data, op) ==
  [j \in DOMAIN X |->
     LET g == At(owner_range, q) + ((j - 1) \div bsize)
         k == ((j - 1) % bsize) + 1
     IN  IF g \in DOMAIN data
         THEN IF op = ADD_VALUES THEN X[j] + data[g][k] ELSE data[g][k]
         ELSE X[j]]

\* endReverse(ctx, x_ext, x, op): combine the messages in the order ord
RECURSIVE endReverse(_, _, _, _, _)
endReverse(q, i, ord, op, X) ==
  IF i > Len(ord) THEN X
  ELSE endReverse(q, i + 1, ord, op,
                  RevCombine(q, X, Head(chan[<<ord[i], q>>]).data, op))

\* beginForward(ctx, x, x_ext): post the owned blocks to the ranks ghosting them
beginForward(c, q, seq, X) ==
  Post(c, q, seq, [s \in GhostersOf(q) |-> OwnedBlocksFor(q, s, X)])

\* endForward(ctx, x, x_ext): every ghost slot receives its owner's block
endForward(s, XE) ==
  [j \in DOMAIN XE |->
     LET g == ext_indices[s][((j - 1) \div bsize) + 1]
         k == ((j - 1) % bsize) + 1
     IN  Head(chan[<<Owner(g), s>>]).data[g][k]]

(***************************************************************************)
(* beginSetValues / endSetValues                                           *)
(***************************************************************************)
\* z scaled by the weight w
Scaled(w, z) == [k \in 1 .. bsize |-> w * z[k]]

\* the parent loop of beginSetValues without the weights (seeded fault)
RECURSIVE collapseParents_NoWeight(_, _, _, _)
collapseParents_NoWeight(r, i, jp, A) ==
  IF jp >= At(dep_ptr[r], i + 1) THEN A
  ELSE LET z == Block(A.x_dep, bsize * i)
           p == At(dep_conn[r], jp)
           A1 == IF IsOwned(r, p)
                 THEN [A EXCEPT !.x =
                         AddBlock(A.x, bsize * (p - At(owner_range, r)), z)]
                 ELSE [A EXCEPT !.x_ext =
                         AddBlock(A.x_ext, bsize * findIndex(r, p), z)]
       IN  collapseParents_NoWeight(r, i, jp + 1, A1)

\* the parent loop of beginSetValues for dependent i, from jp on
RECURSIVE collapseParents(_, _, _, _)
collapseParents(r, i, jp, A) ==
  IF jp >= At(dep_ptr[r], i + 1) THEN A
  ELSE LET z == Block(A.x_dep, bsize * i)
           p == At(dep_conn[r], jp)
           w == At(dep_weights[r], jp)
           A1 == IF IsOwned(r, p)
                 THEN [A EXCEPT !.x =
                         AddBlock(A.x, bsize * (p - At(owner_range, r)), Scaled(w, z))]
                 ELSE [A EXCEPT !.x_ext =
                         AddBlock(A.x_ext, bsize * findIndex(r, p), Scaled(w, z))]
       IN  collapseParents(r, i, jp + 1, A1)

\* the dependent loop of beginSetValues, from dependent i on
RECURSIVE collapseDeps(_, _, _)
collapseDeps(r, i, A) ==
  IF i >= ndep[r] THEN A
  ELSE collapseDeps(r, i + 1, collapseParents(r, i, At(dep_ptr[r], i), A))

\* the collapse made for either op (seeded fault)
Collapsed_AnyOp(r, op) ==
  IF dep_nodes[r] THEN collapseDeps(r, 0, Arrays(r)) ELSE Arrays(r)

\* the arrays of rank r when beginSetValues(op) hands them to beginReverse
Collapsed(r, op) ==
  IF dep_nodes[r] /\ op = ADD_VALUES THEN collapseDeps(r, 0, Arrays(r))
  ELSE Arrays(r)

\* rank r may begin the collective c: it is idle and c is the next one of
\* the global order (the first rank to get there chooses it)
MayBegin(r, c) ==
  /\ pc[r] = "idle"
  /\ cpos[r] < MaxCollectives
  /\ IF cpos[r] < Len(order) THEN order[cpos[r] + 1] = c ELSE TRUE

Begun(r, c) ==
  /\ order' = IF cpos[r] < Len(order) THEN order ELSE Append(order, c)
  /\ cpos' = [cpos EXCEPT ![r] = @ + 1]

NotDone == <<>>

\* beginSetValues without the call of beginReverse (seeded fault)
beginSetValues_NoPost(r, op) ==
  LET A == Collapsed(r, op)
      c == [kind |-> "set", op |-> op]
  IN  /\ MayBegin(r, c)
      /\ Begun(r, c)
      /\ x' = [x EXCEPT ![r] = A.x]
      /\ x_ext' = [x_ext EXCEPT ![r] = A.x_ext]
      /\ chan' = chan
      /\ pc' = [pc EXCEPT ![r] = "set"]
      /\ lastOp' = [lastOp EXCEPT ![r] = "beginSetValues"]
      /\ pre' = [pre EXCEPT ![r] = [x |-> x[r], x_ext |-> x_ext[r],
                                    x_dep |-> x_dep[r],
                                    args |-> [NoArgs EXCEPT !.op = op]]]
      /\ hist' = [hist EXCEPT ![r] = Append(@,
                    [kind |-> "set", op |-> op,
                     x0 |-> x[r], ext0 |-> x_ext[r], dep0 |-> x_dep[r],
                     xb |-> A.x, extb |-> A.x_ext, log |-> ghostLog[r],
                     done |-> FALSE,
                     x1 |-> NotDone, ext1 |-> NotDone, dep1 |-> NotDone])]
      /\ lastMod' = [lastMod EXCEPT ![r] = IF A.x # x[r] THEN cpos[r] + 1 ELSE @]
      /\ ghostLog' = [ghostLog EXCEPT ![r].touched = TRUE, ![r].onlyAdd = FALSE]
      /\ UNCHANGED <<x_dep, nops>>
      /\ UNCHANGED otherVars

beginSetValues(r, op) ==
  LET A == Collapsed(r, op)
      c == [kind |-> "set", op |-> op]
  IN  /\ MayBegin(r, c)
      /\ Begun(r, c)
      /\ x' = [x EXCEPT ![r] = A.x]
      /\ x_ext' = [x_ext EXCEPT ![r] = A.x_ext]
      /\ chan' = IF ext_dist[r] THEN beginReverse(chan, r, cpos[r] + 1, A.x_ext)
                 ELSE chan
      /\ pc' = [pc EXCEPT ![r] = "set"]
      /\ lastOp' = [lastOp EXCEPT ![r] = "beginSetValues"]
      /\ pre' = [pre EXCEPT ![r] = [x |-> x[r], x_ext |-> x_ext[r],
                                    x_dep |-> x_dep[r],
                                    args |-> [NoArgs EXCEPT !.op = op]]]
      /\ hist' = [hist EXCEPT ![r] = Append(@,
                    [kind |-> "set", op |-> op,
                     x0 |-> x[r], ext0 |-> x_ext[r], dep0 |-> x_dep[r],
                     xb |-> A.x, extb |-> A.x_ext, log |-> ghostLog[r],
                     done |-> FALSE,
                     x1 |-> NotDone, ext1 |-> NotDone, dep1 |-> NotDone])]
      /\ lastMod' = [lastMod EXCEPT ![r] = IF A.x # x[r] THEN cpos[r] + 1 ELSE @]
      /\ ghostLog' = [ghostLog EXCEPT ![r].touched = TRUE, ![r].onlyAdd = FALSE]
      /\ UNCHANGED <<x_dep, nops>>
      /\ UNCHANGED otherVars

\* the record of the collective rank r is inside
Cur(r) == hist[r][Len(hist[r])]

Completed(r, name, X, XE, XD) ==
  /\ x' = [x EXCEPT ![r] = X]
  /\ x_ext' = [x_ext EXCEPT ![r] = XE]
  /\ x_dep' = [x_dep EXCEPT ![r] = XD]
  /\ pc' = [pc EXCEPT ![r] = "idle"]
  /\ lastOp' = [lastOp EXCEPT ![r] = name]
  /\ pre' = [pre EXCEPT ![r] = [x |-> x[r], x_ext |-> x_ext[r],
                                x_dep |-> x_dep[r],
                                args |-> [NoArgs EXCEPT !.op = Cur(r).op]]]
  /\ hist' = [hist EXCEPT ![r][Len(hist[r])] =
                [@ EXCEPT !.done = TRUE, !.x1 = X, !.ext1 = XE, !.dep1 = XD]]
  /\ lastMod' = [lastMod EXCEPT ![r] = IF X # x[r] THEN cpos[r] ELSE @]
  /\ UNCHANGED <<order, cpos, nops>>
  /\ UNCHANGED otherVars

\* endSetValues without the call of endReverse (seeded fault)
endSetValues_NoReverse(r, op) ==
  /\ pc[r] = "set"
  /\ Cur(r).op = op
  /\ Arrived(r, GhostersOf(r), cpos[r])
  /\ Completed(r, "endSetValues", x[r], Zeros(ext_size[r]), x_dep[r])
  /\ chan' = Consume(chan, r, GhostersOf(r))
  /\ ghostLog' = [ghostLog EXCEPT ![r] = ZeroLog(r)]

\* endSetValues without the memset of x_ext (seeded fault)
endSetValues_NoZero(r, op) ==
  /\ pc[r] = "set"
  /\ Cur(r).op = op
  /\ Arrived(r, GhostersOf(r), cpos[r])
  /\ \E ord \in Orders(GhostersOf(r)) :
       Completed(r, "endSetValues",
                 IF ext_dist[r] THEN endReverse(r, 1, ord, op, x[r]) ELSE x[r],
                 x_ext[r], x_dep[r])
  /\ chan' = Consume(chan, r, GhostersOf(r))
  /\ ghostLog' = [ghostLog EXCEPT ![r] = ZeroLog(r)]

\* endSetValues(op) with the op of the matching beginSetValues; the wait of
\* endReverse ends when every peer's message is there, and ord is the order
\* in which they are combined
endSetValues(r, op) ==
  /\ pc[r] = "set"
  /\ Cur(r).op = op
  /\ Arrived(r, GhostersOf(r), cpos[r])
  /\ \E ord \in Orders(GhostersOf(r)) :
       Completed(r, "endSetValues",
                 IF ext_dist[r] THEN endReverse(r, 1, ord, op, x[r]) ELSE x[r],
                 Zeros(ext_size[r]), x_dep[r])
  /\ chan' = Consume(chan, r, GhostersOf(r))
  /\ ghostLog' = [ghostLog EXCEPT ![r] = ZeroLog(r)]

(***************************************************************************)
(* beginDistributeValues / endDistributeValues                             *)
(***************************************************************************)
beginDistributeValues(r) ==
  LET c == [kind |-> "dist", op |-> "none"]
  IN  /\ MayBegin(r, c)
      /\ Begun(r, c)
      /\ chan' = IF ext_dist[r] THEN beginForward(chan, r, cpos[r] + 1, x[r])
                 ELSE chan
      /\ pc' = [pc EXCEPT ![r] = "dist"]
      /\ lastOp' = [lastOp EXCEPT ![r] = "beginDistributeValues"]
      /\ pre' = [pre EXCEPT ![r] = [x |-> x[r], x_ext |-> x_ext[r],
                                    x_dep |-> x_dep[r], args |-> NoArgs]]
      /\ hist' = [hist EXCEPT ![r] = Append(@,
                    [kind |-> "dist", op |-> "none",
                     x0 |-> x[r], ext0 |-> x_ext[r], dep0 |-> x_dep[r],
                     xb |-> x[r], extb |-> x_ext[r], log |-> ghostLog[r],
                     done |-> FALSE,
                     x1 |-> NotDone, ext1 |-> NotDone, dep1 |-> NotDone])]
      /\ ghostLog' = [ghostLog EXCEPT ![r].touched = TRUE, ![r].onlyAdd = FALSE]
      /\ UNCHANGED <<x, x_ext, x_dep, nops, lastMod>>
      /\ UNCHANGED otherVars

\* the parent loop of endDistributeValues for dependent i, from jp on; z is
\* the block of the dependent accumulated so far
RECURSIVE evalParents(_, _, _, _, _, _)
evalParents(r, i, jp, X, XE, z) ==
  IF jp >= At(dep_ptr[r], i + 1) THEN z
  ELSE LET p == At(dep_conn[r], jp)
           w == At(dep_weights[r], jp)
           y == IF IsOwned(r, p)
                THEN Block(X, bsize * (p - At(owner_range, r)))
                ELSE Block(XE, bsize * findIndex(r, p))
       IN  evalParents(r, i, jp + 1, X, XE,
                       [k \in 1 .. bsize |-> z[k] + w * y[k]])

\* the dependent loop without its zeroing statement (seeded fault)
evalStart_Keep(z) == z

\* the first statement of the dependent loop: z[k] = 0.0
evalStart(z) == [k \in 1 .. bsize |-> 0]

\* the dependent loop of endDistributeValues, from dependent i on
RECURSIVE evalDeps(_, _, _, _, _)
evalDeps(r, i, X, XE, XD) ==
  IF i >= ndep[r] THEN XD
  ELSE evalDeps(r, i + 1, X, XE,
         InsertBlock(XD, bsize * i,
           evalParents(r, i, At(dep_ptr[r], i), X, XE,
                       evalStart(Block(XD, bsize * i)))))

\* endDistributeValues without the call of endForward (seeded fault)
endDistributeValues_NoForward(r) ==
  /\ pc[r] = "dist"
  /\ Arrived(r, OwnersFor(r), cpos[r])
  /\ LET XE == x_ext[r]
         XD == IF dep_nodes[r] THEN evalDeps(r, 0, x[r], XE, x_dep[r])
               ELSE x_dep[r]
     IN  Completed(r, "endDistributeValues", x[r], XE, XD)
  /\ chan' = Consume(chan, r, OwnersFor(r))
  /\ UNCHANGED ghostLog

\* endDistributeValues evaluating the dependents before endForward (seeded fault)
endDistributeValues_DepsFirst(r) ==
  /\ pc[r] = "dist"
  /\ Arrived(r, OwnersFor(r), cpos[r])
  /\ LET XE == IF ext_dist[r] THEN endForward(r, x_ext[r]) ELSE x_ext[r]
         XD == IF dep_nodes[r] THEN evalDeps(r, 0, x[r], x_ext[r], x_dep[r])
               ELSE x_dep[r]
     IN  Completed(r, "endDistributeValues", x[r], XE, XD)
  /\ chan' = Consume(chan, r, OwnersFor(r))
  /\ UNCHANGED ghostLog

endDistributeValues(r) ==
  /\ pc[r] = "dist"
  /\ Arrived(r, OwnersFor(r), cpos[r])
  /\ LET XE == IF ext_dist[r] THEN endForward(r, x_ext[r]) ELSE x_ext[r]
         XD == IF dep_nodes[r] THEN evalDeps(r, 0, x[r], XE, x_dep[r])
               ELSE x_dep[r]
     IN  Completed(r, "endDistributeValues", x[r], XE, XD)
  /\ chan' = Consume(chan, r, OwnersFor(r))
  /\ UNCHANGED ghostLog

(***************************************************************************)
(* getValues                                                               *)
(***************************************************************************)
\* the blocks getValues writes to vals for the indices index, on rank r
getValues(r, index) ==
  [i \in 1 .. Len(index) |->
     IF IsOwned(r, index[i])
     THEN Block(x[r], bsize * (index[i] - At(owner_range, r)))
     ELSE IF index[i] < 0
     THEN Block(x_dep[r], -bsize * (index[i] + 1))
     ELSE Block(x_ext[r], bsize * findIndex(r, index[i]))]

(***************************************************************************)
(* The callers: every rank makes local calls and the collectives of the    *)
(* one global order, each begin followed by its end                        *)
(***************************************************************************)
\* longest index list passed to setValues
MaxN == 1

IndexLists(r) ==
  UNION {[1 .. n -> ValidIndex(r)] : n \in 1 .. MaxN}

Next ==
  \E r \in Ranks :
    \/ \E index \in IndexLists(r), op \in Ops :
         \E vals \in [1 .. Len(index) -> Blocks] : setValues(r, index, vals, op)
    \/ zeroEntries(r)
    \/ \E val \in 1 .. MaxVal : set(r, val)
    \/ \E alpha \in 1 .. MaxVal : scale(r, alpha + 1)
    \/ \E op \in Ops : beginSetValues(r, op)
    \/ \E op \in Ops : endSetValues(r, op)
    \/ beginDistributeValues(r)
    \/ endDistributeValues(r)

Spec == Init /\ [][Next]_vars

(***************************************************************************)
(* Properties                                                              *)
(***************************************************************************)
\* 0-based offset of owned node g in x[q], of ghost node g in x_ext[s]
OwnedOff(q, g) == bsize * (g - At(owner_range, q))
GhostOff(s, g) == bsize * findIndex(s, g)

\* ranks holding a ghost of node g
Ghosters(g) == {s \in Ranks : g \in GhostNodes(s)}

\* sum of the function f over the finite subset S of its domain
RECURSIVE SumOn(_, _)
SumOn(f, S) ==
  IF S = {} THEN 0
  ELSE LET e == CHOOSE e \in S : TRUE
       IN  f[e] + SumOn(f, S \ {e})
SumOver(f) == SumOn(f, DOMAIN f)

\* collective k of rank q is a beginSetValues(op), a completed beginSetValues
\* (op) .. endSetValues(op) pair, a completed distribute pair
SetBegun(q, k, op) ==
  /\ k \in 1 .. Len(hist[q])
  /\ hist[q][k].kind = "set" /\ hist[q][k].op = op
SetDone(q, k, op) == SetBegun(q, k, op) /\ hist[q][k].done
DistDone(q, k) ==
  /\ k \in 1 .. Len(hist[q])
  /\ hist[q][k].kind = "dist" /\ hist[q][k].done

Rounds == 1 .. MaxCollectives

\* C1: once a rank has returned from endSetValues(ADD), each of its owned
\* slots holds its value at the start of the exchange plus the sum of the
\* ghost blocks that the other ranks handed to the exchange for that node,
\* whatever the order in which the peers' blocks were combined.
C1_AddAssembly ==
  \A q \in Ranks, k \in Rounds :
    SetDone(q, k, ADD_VALUES) =>
      /\ \A s \in GhostersOf(q) : Len(hist[s]) >= k
      /\ \A g \in OwnedNodes(q), j \in 1 .. bsize :
           hist[q][k].x1[OwnedOff(q, g) + j] =
             hist[q][k].xb[OwnedOff(q, g) + j]
             + SumOver([s \in Ghosters(g) |->
                          hist[s][k].extb[GhostOff(s, g) + j]])

\* C1 witness: an owner finished an ADD assembly in which two different
\* peers contributed a nonzero block to the same owned node.
C1_Witness ==
  \E q \in Ranks, k \in Rounds :
    /\ SetDone(q, k, ADD_VALUES)
    /\ \E g \in OwnedNodes(q) : \E s1, s2 \in Ghosters(g) :
         /\ s1 # s2
         /\ hist[s1][k].extb[GhostOff(s1, g) + 1] # 0
         /\ hist[s2][k].extb[GhostOff(s2, g) + 1] # 0
         /\ hist[q][k].x1[OwnedOff(q, g) + 1] # 0

\* the dependents of rank s contribute nothing to node g in collective k
NoDepShare(s, k, g) ==
  \A jp \in 0 .. (Len(dep_conn[s]) - 1) :
    At(dep_conn[s], jp) = g => IsZero(hist[s][k].dep0)

\* the premises of the round trip for node g: collective k is an ADD
\* assembly, k+1 a distribute; the ghosts of g started from zero and hold
\* only setValues(ADD) deposits, no dependent feeds g, and the owner left
\* its local values alone between the two collectives
RoundTripCase(q, g, k) ==
  /\ SetDone(q, k, ADD_VALUES)
  /\ \A s \in Ghosters(g) : hist[s][k].log.onlyAdd
  /\ \A s \in Ranks : Len(hist[s]) >= k => NoDepShare(s, k, g)
  /\ NoDepShare(q, k, g)

\* the value L0[g] + sum of the deposits d on the ghosts of g
RoundTripValue(q, g, k, j) ==
  hist[q][k].x0[OwnedOff(q, g) + j]
  + SumOver([s \in Ghosters(g) |-> hist[s][k].log.sum[GhostOff(s, g) + j]])

\* C2: setValues(ADD) deposits d on the ghosts of g, then begin/endSetValues
\* (ADD), then begin/endDistributeValues leave the owner's block of g and
\* the ghost block of g on every rank ghosting g equal to L0[g] + d.
C2_RoundTrip ==
  \A g \in 0 .. (At(owner_range, mpi_size) - 1), k \in Rounds :
    LET q == Owner(g)
    IN  RoundTripCase(q, g, k) =>
          /\ \A j \in 1 .. bsize :
               hist[q][k].x1[OwnedOff(q, g) + j] = RoundTripValue(q, g, k, j)
          /\ \A r \in Ghosters(g) :
               (/\ DistDone(r, k + 1)
                /\ hist[q][k + 1].x0 = hist[q][k].x1) =>
                 \A j \in 1 .. bsize :
                   hist[r][k + 1].ext1[GhostOff(r, g) + j] =
                     RoundTripValue(q, g, k, j)

\* C2 witness: a round trip completed on a ghosting rank, with a nonzero
\* starting value L0[g] and a nonzero deposit d.
C2_Witness ==
  \E g \in 0 .. (At(owner_range, mpi_size) - 1), k \in Rounds :
    LET q == Owner(g)
    IN  /\ RoundTripCase(q, g, k)
        /\ hist[q][k].x0[OwnedOff(q, g) + 1] # 0
        /\ \E r \in Ghosters(g) :
             /\ DistDone(r, k + 1)
             /\ hist[q][k + 1].x0 = hist[q][k].x1
             /\ hist[r][k].log.sum[GhostOff(r, g) + 1] # 0
             /\ hist[r][k + 1].ext1[GhostOff(r, g) + 1] #
                  hist[q][k].x0[OwnedOff(q, g) + 1]

\* C3: right after construction, zeroEntries and endSetValues (either op)
\* every entry of the rank's ghost array is 0.
C3_GhostZero ==
  \A r \in Ranks :
    lastOp[r] \in {"construct", "zeroEntries", "endSetValues"} =>
      IsZero(x_ext[r])

\* C3 witness: endSetValues has just returned on a rank whose ghost array
\* held deposits when the exchange began.
C3_Witness ==
  \E r \in Ranks :
    /\ lastOp[r] = "endSetValues"
    /\ ~IsZero(Cur(r).extb)

\* C4 as stated: the ghost array is zero whenever the rank is outside a
\* beginSetValues..endSetValues window and has not begun a distribute.
C4_AtRestAsStated ==
  \A r \in Ranks :
    (/\ pc[r] # "set"
     /\ \A k \in 1 .. Len(hist[r]) : hist[r][k].kind # "dist") =>
      IsZero(x_ext[r])

\* C4 amended: the ghost array is zero whenever the rank is outside a
\* begin/end window and, since its ghost array was last zeroed (by the
\* constructor, zeroEntries or endSetValues), has made no setValues call on
\* a ghost index and has begun no distribute.
C4_AtRest ==
  \A r \in Ranks :
    (pc[r] = "idle" /\ ~ghostLog[r].touched) => IsZero(x_ext[r])

\* C4 witness: a rank at rest with an untouched ghost array, after a
\* distribute that filled it and an assembly that zeroed it again.
C4_Witness ==
  \E r \in Ranks :
    /\ pc[r] = "idle" /\ ~ghostLog[r].touched
    /\ Len(hist[r]) = 2
    /\ DistDone(r, 1) /\ ~IsZero(hist[r][1].ext1)
    /\ hist[r][2].kind = "set"

\* the block setValues was to write for position i of its index list
TargetBlock(r, A, g) ==
  IF IsOwned(r, g) THEN Block(A.x, OwnedOff(r, g))
  ELSE IF g < 0 THEN Block(A.x_dep, -bsize * (g + 1))
  ELSE Block(A.x_ext, GhostOff(r, g))

\* C5: after setValues, for every index of the call (owned, dependent or
\* ghost), INSERT leaves the target block equal to the source block and ADD
\* leaves it equal to its previous contents plus the source block.
C5_SetValuesSemantics ==
  \A r \in Ranks :
    lastOp[r] = "setValues" =>
      LET a == pre[r].args
      IN  \A i \in 1 .. Len(a.index) :
            (\A i2 \in 1 .. Len(a.index) : a.index[i2] = a.index[i] => i2 = i) =>
              TargetBlock(r, Arrays(r), a.index[i]) =
                IF a.op = INSERT_VALUES THEN a.vals[i]
                ELSE [k \in 1 .. bsize |->
                        TargetBlock(r, pre[r], a.index[i])[k] + a.vals[i][k]]

\* the dependent of rank r whose parent list holds position jp
DepOf(r, jp) ==
  CHOOSE i \in 0 .. (ndep[r] - 1) :
    At(dep_ptr[r], i) <= jp /\ jp < At(dep_ptr[r], i + 1)

\* entry j of the sum of weight * dep[i] over the dependents i of rank r
\* and their parent entries that name node g, for the dependent array D
DepShare(r, D, g, j) ==
  SumOver([jp \in {h \in 0 .. (Len(dep_conn[r]) - 1) : At(dep_conn[r], h) = g} |->
             At(dep_weights[r], jp) * D[bsize * DepOf(r, jp) + j]])

\* C6: beginSetValues(ADD) adds weight * dep[i] to the slot of every parent
\* of every dependent i (owned slot or ghost slot of the calling rank), and
\* after endSetValues(ADD) the owner of every parent has gained these
\* shares from every rank, on top of the deposits on the node.
C6_DepCollapse ==
  /\ \A r \in Ranks, k \in Rounds :
       SetBegun(r, k, ADD_VALUES) =>
         /\ \A g \in OwnedNodes(r), j \in 1 .. bsize :
              hist[r][k].xb[OwnedOff(r, g) + j] =
                hist[r][k].x0[OwnedOff(r, g) + j]
                + DepShare(r, hist[r][k].dep0, g, j)
         /\ \A g \in GhostNodes(r), j \in 1 .. bsize :
              hist[r][k].extb[GhostOff(r, g) + j] =
                hist[r][k].ext0[GhostOff(r, g) + j]
                + DepShare(r, hist[r][k].dep0, g, j)
  /\ \A q \in Ranks, k \in Rounds :
       SetDone(q, k, ADD_VALUES) =>
         \A g \in OwnedNodes(q), j \in 1 .. bsize :
           hist[q][k].x1[OwnedOff(q, g) + j] =
             hist[q][k].x0[OwnedOff(q, g) + j]
             + DepShare(q, hist[q][k].dep0, g, j)
             + SumOver([s \in Ghosters(g) |->
                          hist[s][k].ext0[GhostOff(s, g) + j]
                          + DepShare(s, hist[s][k].dep0, g, j)])

\* C6 witness: an ADD assembly completed in which a rank held a nonzero
\* dependent deposit with one parent it owns and one parent owned by a peer,
\* and both owners' values changed.
C6_Witness ==
  \E r \in Ranks, k \in Rounds :
    /\ SetDone(r, k, ADD_VALUES)
    /\ ~IsZero(hist[r][k].dep0)
    /\ hist[r][k].xb # hist[r][k].x0
    /\ hist[r][k].extb # hist[r][k].ext0
    /\ \E q \in OwnersFor(r) :
         /\ SetDone(q, k, ADD_VALUES)
         /\ hist[q][k].x1 # hist[q][k].x0

\* C7: beginSetValues(INSERT) changes neither x nor x_ext on account of the
\* dependents, and after endSetValues(INSERT) every owned block is the
\* ghost block some peer handed over for it or, where no peer ghosts the
\* node, its value before the call; x_dep is left alone.
C7_InsertIgnoresDeps ==
  /\ \A r \in Ranks, k \in Rounds :
       SetBegun(r, k, INSERT_VALUES) =>
         /\ hist[r][k].xb = hist[r][k].x0
         /\ hist[r][k].extb = hist[r][k].ext0
  /\ \A q \in Ranks, k \in Rounds :
       SetDone(q, k, INSERT_VALUES) =>
         /\ hist[q][k].dep1 = hist[q][k].dep0
         /\ \A g \in OwnedNodes(q) :
              Block(hist[q][k].x1, OwnedOff(q, g)) \in
                IF Ghosters(g) = {}
                THEN {Block(hist[q][k].x0, OwnedOff(q, g))}
                ELSE {Block(hist[s][k].ext0, GhostOff(s, g)) : s \in Ghosters(g)}

\* C7 witness: an INSERT assembly completed on a rank holding a nonzero
\* dependent deposit, and on the peer that owns one of its parents.
C7_Witness ==
  \E r \in Ranks, k \in Rounds :
    /\ SetDone(r, k, INSERT_VALUES)
    /\ ~IsZero(hist[r][k].dep0)
    /\ \A q \in OwnersFor(r) : SetDone(q, k, INSERT_VALUES)

\* C8: when endDistributeValues has returned on rank r, its own x is what
\* it was at beginDistributeValues, and for every ghost node g whose owner
\* has not changed its x since that owner's beginDistributeValues, the ghost
\* block of g on r and getValues(g) on r equal the owner's block of g.
C8_ForwardGhosts ==
  \A r \in Ranks :
    lastOp[r] = "endDistributeValues" =>
      /\ x[r] = Cur(r).x0
      /\ \A g \in GhostNodes(r) :
           LET q == Owner(g)
           IN  lastMod[q] < cpos[r] =>
                 /\ Block(x_ext[r], GhostOff(r, g)) = Block(x[q], OwnedOff(q, g))
                 /\ getValues(r, <<g>>) = getValues(q, <<g>>)

\* C8 witness: a distribute completed on a rank for a ghost node whose
\* owner holds a nonzero block and has not changed it since.
C8_Witness ==
  \E r \in Ranks :
    /\ lastOp[r] = "endDistributeValues"
    /\ \E g \in GhostNodes(r) :
         /\ lastMod[Owner(g)] < cpos[r]
         /\ x[Owner(g)][OwnedOff(Owner(g), g) + 1] # 0
         /\ x[Owner(g)][OwnedOff(Owner(g), g) + 2] # 0

\* entry j of parent node p as rank r reads it: from x if owned, from the
\* ghost slot otherwise
ParentValue(r, p, j) ==
  IF IsOwned(r, p) THEN x[r][OwnedOff(r, p) + j]
  ELSE x_ext[r][GhostOff(r, p) + j]

\* C9: after begin/endDistributeValues every entry of every dependent is
\* the weighted sum of its parents' entries, whatever x_dep held before.
C9_DepEvaluation ==
  \A r \in Ranks :
    (dep_nodes[r] /\ lastOp[r] = "endDistributeValues") =>
      \A i \in 0 .. (ndep[r] - 1), j \in 1 .. bsize :
        x_dep[r][bsize * i + j] =
          SumOver([jp \in At(dep_ptr[r], i) .. (At(dep_ptr[r], i + 1) - 1) |->
                     At(dep_weights[r], jp)
                     * ParentValue(r, At(dep_conn[r], jp), j)])

\* C9 witness: a distribute completed on a rank whose dependent array held
\* a stale deposit before and holds a different, nonzero value now.
C9_Witness ==
  \E r \in Ranks :
    /\ dep_nodes[r] /\ lastOp[r] = "endDistributeValues"
    /\ ~IsZero(pre[r].x_dep)
    /\ ~IsZero(x_dep[r])
    /\ x_dep[r] # pre[r].x_dep

\* collectives k and k+1 of rank r are both completed distributes, and
\* neither r nor any owner of a ghost of r holds another x at the second
\* beginDistributeValues than at the first
TwoDistributes(r, k) ==
  /\ DistDone(r, k) /\ DistDone(r, k + 1)
  /\ \A q \in OwnersFor(r) \cup {r} : hist[q][k + 1].x0 = hist[q][k].x0

\* C10: a second begin/endDistributeValues with no change of any rank's x
\* in between leaves the same x_ext and x_dep as the first.
C10_DistributeIdempotent ==
  \A r \in Ranks, k \in Rounds :
    TwoDistributes(r, k) =>
      /\ hist[r][k + 1].ext1 = hist[r][k].ext1
      /\ hist[r][k + 1].dep1 = hist[r][k].dep1

\* C10 witness: two distributes in a row on a rank with dependents, with
\* nonzero results, where the rank deposited on its dependent array between
\* the two.
C10_Witness ==
  \E r \in Ranks, k \in Rounds :
    /\ TwoDistributes(r, k)
    /\ dep_nodes[r]
    /\ ~IsZero(hist[r][k].ext1) /\ ~IsZero(hist[r][k].dep1)
    /\ hist[r][k + 1].dep0 # hist[r][k].dep1

(***************************************************************************)
(* writeToFile / readFromFile                                              *)
(*                                                                         *)
(* The file is [exists, writable, header, data]: header is the int at      *)
(* offset 0 (0 while nothing was written there), data the scalars behind   *)
(* it.  order and cpos hold the collective calls as in the assembly        *)
(* protocol: the Allgather at the head of both calls lets no rank pass     *)
(* before every rank has left the call before.                             *)
(***************************************************************************)
\* collective file calls made by one rank
MaxFileCalls == 2

\* range[r] of both calls: Allgather of size, then the running sum
RECURSIVE range(_)
range(r) == IF r = 0 THEN 0 ELSE range(r - 1) + size[r - 1]

\* the arrays of the proto variables when no collective is under way
ProtoIdle ==
  /\ pc = [r \in Ranks |-> "idle"]
  /\ chan = [p \in Ranks \X Ranks |-> <<>>]
  /\ order = <<>>
  /\ cpos = [r \in Ranks |-> 0]
  /\ nops = 0
  /\ lastOp = [r \in Ranks |-> "construct"]
  /\ pre = [r \in Ranks |-> [x |-> <<>>, x_ext |-> <<>>, x_dep |-> <<>>,
                             args |-> NoArgs]]
  /\ hist = [r \in Ranks |-> <<>>]
  /\ lastMod = [r \in Ranks |-> 0]
  /\ ghostLog = [r \in Ranks |-> ZeroLog(r)]

\* owned values a caller has put into x[r]: zero, or v * (1 + position in
\* the global vector)
Ramp(r, v) == [j \in 1 .. size[r] |-> v * (range(r) + j)]
LocalValues == {[r \in Ranks |-> Ramp(r, v[r])] : v \in [Ranks -> 0 .. MaxVal]}

\* the files a call can find: none (in a directory where one can or cannot
\* be created), or the file of a vector of n scalars, all of them 9
NoFile(w) == [exists |-> FALSE, writable |-> w, header |-> 0, data |-> <<>>]
FileOf(n) == [exists |-> TRUE, writable |-> TRUE, header |-> n,
              data |-> [j \in 1 .. n |-> 9]]
\* scalars fewer in a file of another vector than this vector holds
Shorter == 4
Files == {NoFile(TRUE), NoFile(FALSE), FileOf(range(mpi_size)),
          FileOf(range(mpi_size) - Shorter)}

InitFile ==
  /\ x \in LocalValues
  /\ x_ext = [r \in Ranks |-> Zeros(ext_size[r])]
  /\ x_dep = [r \in Ranks |-> Zeros(dep_size[r])]
  /\ ProtoIdle
  /\ file \in Files
  /\ ret = [r \in Ranks |-> [fail |-> 0, wfail |-> 0, xw |-> <<>>,
                             found |-> NoFile(TRUE)]]
  /\ peer = Unused /\ bcmap = Unused /\ rng = Unused /\ heap = Unused

\* rank r may enter its next collective file call, c: c is the next call of
\* the global order and every rank has left the call before
MayCall(r, c) ==
  /\ cpos[r] < MaxFileCalls
  /\ \A q \in Ranks : cpos[q] >= cpos[r]
  /\ IF cpos[r] < Len(order) THEN order[cpos[r] + 1] = c ELSE TRUE

FileCallDone(r, name) ==
  /\ lastOp' = [lastOp EXCEPT ![r] = name]
  /\ pre' = [pre EXCEPT ![r] = [x |-> x[r], x_ext |-> x_ext[r],
                                x_dep |-> x_dep[r], args |-> NoArgs]]
  /\ UNCHANGED <<x_ext, x_dep, pc, chan, nops, hist, lastMod, ghostLog>>
  /\ UNCHANGED <<peer, bcmap, rng, heap>>

\* MPI_File_write_at_all(fp, off, buf, n): the scalars of buf at the 0-based
\* positions off .. off+n-1 of the data, holes read as 0
WriteAt(data, off, buf) ==
  [j \in 1 .. (IF off + Len(buf) > Len(data) THEN off + Len(buf) ELSE Len(data)) |->
     IF j > off /\ j <= off + Len(buf) THEN buf[j - off]
     ELSE IF j <= Len(data) THEN data[j] ELSE 0]

\* MPI_File_read_at_all(fp, off, buf, n): the scalars the file holds at
\* off .. off+n-1 replace the head of buf; past the end nothing is read
ReadAt(data, off, buf) ==
  [j \in 1 .. Len(buf) |-> IF off + j <= Len(data) THEN data[off + j] ELSE buf[j]]

\* writeToFile that writes every rank's slab at offset 0 (seeded fault)
writeToFile_NoOffset(r) ==
  /\ MayCall(r, "write")
  /\ Begun(r, "write")
  /\ IF file.exists \/ file.writable
     THEN /\ file' = [file EXCEPT
                        !.exists = TRUE,
                        !.header = IF r = 0 THEN range(mpi_size) ELSE @,
                        !.data = WriteAt(@, 0, x[r])]
          /\ ret' = [ret EXCEPT ![r].fail = 0, ![r].wfail = 0, ![r].xw = x[r],
                                ![r].found = file]
     ELSE /\ file' = file
          /\ ret' = [ret EXCEPT ![r].fail = 1, ![r].wfail = 1, ![r].xw = x[r],
                                ![r].found = file]
  /\ x' = x
  /\ FileCallDone(r, "writeToFile")

\* writeToFile on rank r: the file is opened (created if need be), rank 0
\* writes the header, every rank its slab at range[mpi_rank]
writeToFile(r) ==
  /\ MayCall(r, "write")
  /\ Begun(r, "write")
  /\ IF file.exists \/ file.writable
     THEN /\ file' = [file EXCEPT
                        !.exists = TRUE,
                        !.header = IF r = 0 THEN range(mpi_size) ELSE @,
                        !.data = WriteAt(@, range(r), x[r])]
          /\ ret' = [ret EXCEPT ![r].fail = 0, ![r].wfail = 0, ![r].xw = x[r],
                                ![r].found = file]
     ELSE /\ file' = file
          /\ ret' = [ret EXCEPT ![r].fail = 1, ![r].wfail = 1, ![r].xw = x[r],
                                ![r].found = file]
  /\ x' = x
  /\ FileCallDone(r, "writeToFile")

\* readFromFile on rank r: if the file opens, the header is compared with
\* range[mpi_size] (x is zeroed when they differ), then the slab at
\* range[mpi_rank] is read into x
readFromFile(r) ==
  /\ MayCall(r, "read")
  /\ Begun(r, "read")
  /\ IF file.exists
     THEN LET len == file.header
              X == IF len # range(mpi_size) THEN Zeros(size[r]) ELSE x[r]
          IN  /\ x' = [x EXCEPT ![r] = ReadAt(file.data, range(r), X)]
              /\ ret' = [ret EXCEPT ![r].fail = 0, ![r].found = file]
     ELSE /\ x' = x
          /\ ret' = [ret EXCEPT ![r].fail = 1, ![r].found = file]
  /\ file' = file
  /\ FileCallDone(r, "readFromFile")

NextFile ==
  \E r \in Ranks :
    \/ writeToFile(r)
    \/ readFromFile(r)
    \/ zeroEntries(r)
    \/ \E val \in 1 .. MaxVal : set(r, val)

SpecFile == InitFile /\ [][NextFile]_vars

\* C11: when readFromFile found a file whose header differs from the sum of
\* the ranks' sizes, x is all zero on return and the return value is not 0.
C11_ReadSizeMismatch ==
  \A r \in Ranks :
    (/\ lastOp[r] = "readFromFile"
     /\ ret[r].found.exists
     /\ ret[r].found.header # range(mpi_size)) =>
      /\ IsZero(x[r])
      /\ ret[r].fail # 0

\* rank r's last call was readFromFile and the collective call before it
\* was writeToFile
ReadAfterWrite(r) ==
  /\ lastOp[r] = "readFromFile"
  /\ cpos[r] >= 2
  /\ order[cpos[r] - 1] = "write"

\* every rank has left a writeToFile that no later collective call followed
AllWrote ==
  /\ Len(order) >= 1
  /\ order[Len(order)] = "write"
  /\ \A r \in Ranks : cpos[r] = Len(order)

\* C16: where the file can be opened, writeToFile then readFromFile both
\* return 0 and x is again what it was at the write, whatever was done to it
\* in between; once every rank has written, the header is the sum of the
\* ranks' sizes and the data are the ranks' slabs in global order.
C16_FileRoundTrip ==
  /\ \A r \in Ranks :
       (lastOp[r] = "writeToFile" /\ (ret[r].found.exists \/ ret[r].found.writable))
         => ret[r].fail = 0
  /\ \A r \in Ranks :
       (ReadAfterWrite(r) /\ ret[r].wfail = 0) =>
         /\ ret[r].fail = 0
         /\ x[r] = ret[r].xw
  /\ (AllWrote /\ \A r \in Ranks : ret[r].wfail = 0) =>
       /\ file.header = range(mpi_size)
       /\ Len(file.data) >= range(mpi_size)
       /\ \A r \in Ranks : \A j \in 1 .. size[r] :
            file.data[range(r) + j] = ret[r].xw[j]

\* a rank read back nonzero values it had set to something else in between,
\* from a file every rank wrote
C16_Witness ==
  \E r \in Ranks :
    /\ ReadAfterWrite(r)
    /\ ret[r].wfail = 0
    /\ r > 0
    /\ ~IsZero(x[r])
    /\ pre[r].x # x[r]

\* readFromFile found a file of fewer scalars than the vector holds and left
\* nonzero values in x, returning 0
C11_Witness ==
  \E r \in Ranks :
    /\ lastOp[r] = "readFromFile"
    /\ ret[r].found.exists
    /\ ret[r].found.header # range(mpi_size)
    /\ ~IsZero(x[r])
    /\ ret[r].fail = 0

(***************************************************************************)
(* dot, mdot, axpy, axpby, copyValues                                      *)
(*                                                                         *)
(* peer[r] is the list of vectors rank r passes to these calls.  ret[r] is *)
(* the list of rank r's dot and mdot calls with what they returned.        *)
(* MPI_Allreduce pairs the n-th all-reduce a rank enters with the n-th of  *)
(* every other rank: a contribution is a message to every rank, taken in   *)
(* order of arrival.                                                       *)
(***************************************************************************)
\* vectors in an mdot list
MaxVecs == 2
\* dot calls made by one rank
MaxDots == 1

\* a TACSBVec on the partition of this vector, all owned entries w
PeerMatch(r, w) ==
  [type |-> "BVec", size |-> size[r],
   x |-> [j \in 1 .. size[r] |-> w],
   x_ext |-> [j \in 1 .. ext_size[r] |-> w],
   x_dep |-> [j \in 1 .. dep_size[r] |-> w]]
\* a TACSBVec that owns one node fewer on rank r
PeerShort(r, w) ==
  [type |-> "BVec", size |-> size[r] - bsize,
   x |-> [j \in 1 .. size[r] - bsize |-> w],
   x_ext |-> [j \in 1 .. ext_size[r] |-> w],
   x_dep |-> [j \in 1 .. dep_size[r] |-> w]]
\* a TACSVec that is no TACSBVec
PeerOther ==
  [type |-> "other", size |-> 0, x |-> <<>>, x_ext |-> <<>>, x_dep |-> <<>>]

PeerIds == 1 .. 2
\* the first vector of the list conforms on every rank; the second does not
\* on the ranks of D, where it is the vector other(r)
PeerList(r, D, other) ==
  <<PeerMatch(r, 1), IF r \in D THEN other[r] ELSE PeerMatch(r, 2)>>
Deviating == {{}, Ranks} \cup {{r} : r \in Ranks}
PeerLists ==
  {[r \in Ranks |-> PeerList(r, D, other)] :
     D \in Deviating,
     other \in {[r \in Ranks |-> PeerShort(r, 2)], [r \in Ranks |-> PeerOther]}}

\* vec->size != size
Mismatch(r, j) == peer[r][j].type = "BVec" /\ peer[r][j].size # size[r]
\* the dynamic_cast succeeds and the sizes agree
Conforms(r, j) == peer[r][j].type = "BVec" /\ peer[r][j].size = size[r]

InitAlgebra ==
  /\ x = [r \in Ranks |-> Ramp(r, 1)]
  /\ x_ext = [r \in Ranks |-> [j \in 1 .. ext_size[r] |-> 1]]
  /\ x_dep = [r \in Ranks |-> [j \in 1 .. dep_size[r] |-> 1]]
  /\ ProtoIdle
  /\ peer \in PeerLists
  /\ ret = [r \in Ranks |-> <<>>]
  /\ file = Unused /\ bcmap = Unused /\ rng = Unused /\ heap = Unused

PeerArgs(j, alphas) == [NoArgs EXCEPT !.index = <<j>>, !.vals = alphas]

\* axpy without the size test, reading 0 past the end of vec->x
\* (seeded fault)
axpy_NoCheck(r, alpha, j) ==
  LET vec == peer[r][j]
  IN  LocalCall(r, "axpy", PeerArgs(j, <<alpha>>),
                IF vec.type = "BVec"
                THEN [Arrays(r) EXCEPT !.x =
                        [k \in 1 .. size[r] |->
                           x[r][k] + alpha * (IF k <= vec.size THEN vec.x[k] ELSE 0)]]
                ELSE Arrays(r),
                ghostLog[r])

axpy(r, alpha, j) ==
  LET vec == peer[r][j]
  IN  LocalCall(r, "axpy", PeerArgs(j, <<alpha>>),
                IF Conforms(r, j)
                THEN [Arrays(r) EXCEPT !.x =
                        [k \in 1 .. size[r] |-> x[r][k] + alpha * vec.x[k]]]
                ELSE Arrays(r),
                ghostLog[r])

axpby(r, alpha, beta, j) ==
  LET vec == peer[r][j]
  IN  LocalCall(r, "axpby", PeerArgs(j, <<alpha, beta>>),
                IF Conforms(r, j)
                THEN [Arrays(r) EXCEPT !.x =
                        [k \in 1 .. size[r] |-> beta * x[r][k] + alpha * vec.x[k]]]
                ELSE Arrays(r),
                ghostLog[r])

\* copyValues that copies the ghost values of vec too (seeded fault)
copyValues_Ghosts(r, j) ==
  LET vec == peer[r][j]
  IN  LocalCall(r, "copyValues", PeerArgs(j, <<>>),
                IF Conforms(r, j)
                THEN [Arrays(r) EXCEPT !.x = vec.x, !.x_ext = vec.x_ext]
                ELSE Arrays(r),
                ghostLog[r])

copyValues(r, j) ==
  LET vec == peer[r][j]
  IN  LocalCall(r, "copyValues", PeerArgs(j, <<>>),
                IF Conforms(r, j)
                THEN [Arrays(r) EXCEPT !.x = vec.x]
                ELSE Arrays(r),
                ghostLog[r])

\* BLASdot(&size, x, &one, vec->x, &one)
BLASdot(a, b) == SumOver([k \in 1 .. Len(a) |-> a[k] * b[k]])

\* a rank enters MPI_Allreduce with the buffer buf
AllreduceEnter(c, s, buf) ==
  [p \in Ranks \X Ranks |->
     IF p[1] = s THEN Append(c[p], [seq |-> 0, data |-> buf]) ELSE c[p]]

\* the contribution of every rank has reached q
AllreduceReady(q) == \A s \in Ranks : Len(chan[<<s, q>>]) > 0

\* the buffers MPI_Allreduce can leave on rank q, which entered with count
\* elements: the element-wise sums, or anything where a rank's count differs
AllreduceOut(q, count) ==
  IF \A s \in Ranks : Len(Head(chan[<<s, q>>]).data) = count
  THEN {[i \in 1 .. count |->
           SumOver([s \in Ranks |-> Head(chan[<<s, q>>]).data[i]])]}
  ELSE [1 .. count -> 0 .. MaxVal]

AllreduceLeave(c, q) ==
  [p \in Ranks \X Ranks |-> IF p[2] = q THEN Tail(c[p]) ELSE c[p]]

\* the frame of a dot or mdot step on rank r
Reduction(r, name) ==
  /\ lastOp' = [lastOp EXCEPT ![r] = name]
  /\ UNCHANGED <<x, x_ext, x_dep, nops, pre, hist, lastMod, ghostLog>>
  /\ UNCHANGED <<peer, file, bcmap, rng, heap>>

\* dot up to its return or to the all-reduce it waits in
dot(r, j) ==
  LET c == [kind |-> "dot", js |-> <<j>>]
      vec == peer[r][j]
  IN  /\ MayBegin(r, c)
      /\ Cardinality({i \in DOMAIN ret[r] : ret[r][i].call.kind = "dot"}) < MaxDots
      /\ Begun(r, c)
      /\ IF vec.type = "BVec"
         THEN IF vec.size # size[r]
              THEN /\ chan' = chan
                   /\ pc' = pc
                   /\ ret' = [ret EXCEPT ![r] = Append(@,
                                [call |-> c, out |-> <<0>>, nred |-> 0, done |-> TRUE])]
              ELSE /\ chan' = AllreduceEnter(chan, r, <<BLASdot(x[r], vec.x)>>)
                   /\ pc' = [pc EXCEPT ![r] = "dot"]
                   /\ ret' = [ret EXCEPT ![r] = Append(@,
                                [call |-> c, out |-> <<>>, nred |-> 1, done |-> FALSE])]
         ELSE /\ chan' = chan
              /\ pc' = pc
              /\ ret' = [ret EXCEPT ![r] = Append(@,
                           [call |-> c, out |-> <<0>>, nred |-> 0, done |-> TRUE])]
      /\ Reduction(r, "dot")

\* dot from the all-reduce to its return
dotReduced(r) ==
  /\ pc[r] = "dot"
  /\ AllreduceReady(r)
  /\ \E sum \in AllreduceOut(r, 1) :
       ret' = [ret EXCEPT ![r][Len(ret[r])] = [@ EXCEPT !.out = sum, !.done = TRUE]]
  /\ chan' = AllreduceLeave(chan, r)
  /\ pc' = [pc EXCEPT ![r] = "idle"]
  /\ UNCHANGED <<order, cpos>>
  /\ Reduction(r, "dot")

\* ans[k] of mdot before the all-reduce
mdotLocal(r, js) ==
  [k \in 1 .. Len(js) |->
     IF Conforms(r, js[k]) THEN BLASdot(x[r], peer[r][js[k]].x) ELSE 0]

\* mdot up to the all-reduce
mdot(r, js) ==
  LET c == [kind |-> "mdot", js |-> js]
  IN  /\ MayBegin(r, c)
      /\ Begun(r, c)
      /\ chan' = AllreduceEnter(chan, r, mdotLocal(r, js))
      /\ pc' = [pc EXCEPT ![r] = "mdot"]
      /\ ret' = [ret EXCEPT ![r] = Append(@,
                   [call |-> c, out |-> <<>>, nred |-> 1, done |-> FALSE])]
      /\ Reduction(r, "mdot")

\* mdot from the all-reduce to its return
mdotReduced(r) ==
  /\ pc[r] = "mdot"
  /\ AllreduceReady(r)
  /\ \E ans \in AllreduceOut(r, Len(ret[r][Len(ret[r])].call.js)) :
       ret' = [ret EXCEPT ![r][Len(ret[r])] = [@ EXCEPT !.out = ans, !.done = TRUE]]
  /\ chan' = AllreduceLeave(chan, r)
  /\ pc' = [pc EXCEPT ![r] = "idle"]
  /\ UNCHANGED <<order, cpos>>
  /\ Reduction(r, "mdot")

VecLists == UNION {[1 .. n -> PeerIds] : n \in 1 .. MaxVecs}

NextAlgebra ==
  \E r \in Ranks :
    \/ \E alpha \in 1 .. MaxVal : scale(r, alpha + 1)
    \/ \E alpha \in 1 .. MaxVal, j \in PeerIds : axpy(r, alpha, j)
    \/ \E alpha \in 1 .. MaxVal, j \in PeerIds : axpby(r, alpha, alpha + 1, j)
    \/ \E j \in PeerIds : copyValues(r, j)
    \/ \E val \in 1 .. MaxVal : set(r, val)
    \/ zeroEntries(r)
    \/ \E j \in PeerIds : dot(r, j)
    \/ dotReduced(r)

SpecAlgebra == InitAlgebra /\ [][NextAlgebra]_vars

\* the reductions alone, on vectors no rank changes
NextDot ==
  \E r \in Ranks :
    \/ \E j \in PeerIds : dot(r, j)
    \/ dotReduced(r)
    \/ \E js \in VecLists : mdot(r, js)
    \/ mdotReduced(r)

SpecDot == InitAlgebra /\ [][NextDot]_vars

\* the record of the last dot or mdot call of rank r
LastCall(r) == ret[r][Len(ret[r])]

\* C12: a dot, axpy, axpby or copyValues step with a peer whose local size
\* differs from this vector's changes none of this vector's three arrays and
\* none of the peer's, and the dot returns 0 at once.
C12_ShapeMismatch ==
  [][\A r \in Ranks, j \in PeerIds :
       Mismatch(r, j) =>
         /\ (\/ \E alpha \in 1 .. MaxVal : axpy(r, alpha, j)
             \/ \E alpha \in 1 .. MaxVal : axpby(r, alpha, alpha + 1, j)
             \/ copyValues(r, j))
              => UNCHANGED <<x, x_ext, x_dep, peer>>
         /\ dot(r, j)
              => /\ UNCHANGED <<x, x_ext, x_dep, peer>>
                 /\ pc'[r] = "idle"
                 /\ ret'[r][Len(ret'[r])].done
                 /\ ret'[r][Len(ret'[r])].out = <<0>>]_vars

\* one rank has called axpy and another has got 0 from dot, each with a
\* peer of another size, on nonzero local arrays
C12_Witness ==
  \E r, q \in Ranks :
    /\ lastOp[r] = "axpy"
    /\ Mismatch(r, pre[r].args.index[1])
    /\ ~IsZero(x[r])
    /\ lastOp[q] = "dot"
    /\ Mismatch(q, LastCall(q).call.js[1])
    /\ LastCall(q).out = <<0>>
    /\ ~IsZero(x[q])

\* C13: a returned mdot made exactly one all-reduce and holds in out[i] what
\* dot with the i-th vector of its list returned on the same rank.
C13_MdotAsDots ==
  \A r \in Ranks : \A a \in DOMAIN ret[r] :
    (ret[r][a].call.kind = "mdot" /\ ret[r][a].done) =>
      /\ ret[r][a].nred = 1
      /\ Len(ret[r][a].out) = Len(ret[r][a].call.js)
      /\ \A i \in 1 .. Len(ret[r][a].call.js) : \A b \in DOMAIN ret[r] :
           (/\ ret[r][b].call.kind = "dot"
            /\ ret[r][b].done
            /\ ret[r][b].call.js[1] = ret[r][a].call.js[i])
             => ret[r][a].out[i] = ret[r][b].out[1]

\* C20: a scale, axpy, axpby, copyValues or set step of rank r leaves the
\* ghost and dep arrays of every rank, the local arrays of the other ranks
\* and the peers as they were; a zeroEntries step leaves rank r's local,
\* ghost and dep arrays all zero.
C20_AlgebraLocalOnly ==
  [][\A r \in Ranks :
       /\ (\/ \E alpha \in 1 .. MaxVal : scale(r, alpha + 1)
           \/ \E alpha \in 1 .. MaxVal, j \in PeerIds : axpy(r, alpha, j)
           \/ \E alpha \in 1 .. MaxVal, j \in PeerIds : axpby(r, alpha, alpha + 1, j)
           \/ \E j \in PeerIds : copyValues(r, j)
           \/ \E val \in 1 .. MaxVal : set(r, val))
            => /\ UNCHANGED <<x_ext, x_dep, peer>>
               /\ \A q \in Ranks \ {r} : x'[q] = x[q]
       /\ zeroEntries(r)
            => /\ IsZero(x'[r]) /\ IsZero(x_ext'[r]) /\ IsZero(x_dep'[r])
               /\ peer' = peer]_vars

\* a rank has copied a conforming peer's values over its own, its ghost and
\* dep arrays holding values, and another rank has zeroed arrays that held
\* values
C20_Witness ==
  \E r, q \in Ranks :
    /\ lastOp[r] = "copyValues"
    /\ Conforms(r, pre[r].args.index[1])
    /\ x[r] # pre[r].x
    /\ ~IsZero(x_ext[r])
    /\ lastOp[q] = "zeroEntries"
    /\ ~IsZero(pre[q].x_ext)
    /\ ~IsZero(pre[q].x)

(***************************************************************************)
(* TACSBcMap                                                               *)
(*                                                                         *)
(* bcmap holds the members of the object; an array of capacity n is a      *)
(* sequence of length n whose cells hold Uninit until they are written.    *)
(* null is TRUE where the vector was built without a TACSBcMap.  ret is    *)
(* the list of the arguments of the addBC calls made so far.               *)
(***************************************************************************)
\* addBC calls on one object
MaxBCs == 5
\* largest capacity estimate passed to the constructor
MaxEstimate == 1
\* content of a cell of new int[n] before it is written
Uninit == -99
\* a boundary value a caller passes in bc_vals
BcValue == 7

Fresh(n) == [i \in 1 .. n |-> Uninit]
Store(a, i, v) == [a EXCEPT ![i + 1] = v]

\* TACSBcMap::TACSBcMap(num_bcs)
BcMapNew(num_bcs) ==
  LET n == IF num_bcs >= 0 THEN num_bcs ELSE 0
  IN  [null |-> FALSE,
       max_size |-> n,
       max_var_ptr_size |-> 8 * (n + 1),
       bc_increment |-> n + 1,
       var_ptr_increment |-> 8 * (n + 1),
       nbcs |-> 0,
       global |-> Fresh(n),
       local |-> Fresh(n),
       var_ptr |-> Store(Fresh(n + 1), 0, 0),
       vars |-> Fresh(8 * (n + 1)),
       values |-> Fresh(8 * (n + 1))]

\* bcs == NULL
BcNull == [BcMapNew(0) EXCEPT !.null = TRUE]

\* the first n cells of a in a new array of capacity cap
Regrown(a, n, cap) == [i \in 1 .. cap |-> IF i <= n THEN a[i] ELSE Uninit]

\* addBC that grows the node arrays only once nbcs has passed max_size
\* (seeded fault)
AddBC_GrowLate(B, local_var, global_var, bc_nums, bc_vals, hasVals) ==
  LET n == B.nbcs
      grow == n > B.max_size
      ms == IF grow THEN B.max_size + B.bc_increment ELSE B.max_size
      loc == Store(IF grow THEN Regrown(B.local, n, ms) ELSE B.local, n, local_var)
      glo == Store(IF grow THEN Regrown(B.global, n, ms) ELSE B.global, n, global_var)
      ptr0 == IF grow THEN Regrown(B.var_ptr, n + 1, ms + 1) ELSE B.var_ptr
      first == At(ptr0, n)
      last == first + Len(bc_nums)
      ptr == Store(ptr0, n + 1, last)
      growv == last + 1 >= B.max_var_ptr_size
      mv == IF growv THEN last + B.var_ptr_increment ELSE B.max_var_ptr_size
      vars0 == IF growv THEN Regrown(B.vars, first, mv) ELSE B.vars
      vals0 == IF growv THEN Regrown(B.values, first, mv) ELSE B.values
  IN  [B EXCEPT
         !.max_size = ms,
         !.max_var_ptr_size = mv,
         !.local = loc,
         !.global = glo,
         !.var_ptr = ptr,
         !.vars = [i \in 1 .. Len(vars0) |->
                     IF i > first /\ i <= last THEN bc_nums[i - first] ELSE vars0[i]],
         !.values = [i \in 1 .. Len(vals0) |->
                       IF i > first /\ i <= last
                       THEN IF hasVals THEN bc_vals[i - first] ELSE 0
                       ELSE vals0[i]],
         !.nbcs = n + 1]

\* addBC whose growth of var_ptr leaves out temp_ptr[nbcs] = var_ptr[nbcs]
\* (seeded fault)
AddBC_NoPtrCopy(B, local_var, global_var, bc_nums, bc_vals, hasVals) ==
  LET n == B.nbcs
      grow == n + 1 >= B.max_size
      ms == IF grow THEN B.max_size + B.bc_increment ELSE B.max_size
      loc == Store(IF grow THEN Regrown(B.local, n, ms) ELSE B.local, n, local_var)
      glo == Store(IF grow THEN Regrown(B.global, n, ms) ELSE B.global, n, global_var)
      ptr0 == IF grow THEN Regrown(B.var_ptr, n, ms + 1) ELSE B.var_ptr
      first == At(ptr0, n)
      last == first + Len(bc_nums)
      ptr == Store(ptr0, n + 1, last)
      growv == last + 1 >= B.max_var_ptr_size
      mv == IF growv THEN last + B.var_ptr_increment ELSE B.max_var_ptr_size
      vars0 == IF growv THEN Regrown(B.vars, first, mv) ELSE B.vars
      vals0 == IF growv THEN Regrown(B.values, first, mv) ELSE B.values
  IN  [B EXCEPT
         !.max_size = ms,
         !.max_var_ptr_size = mv,
         !.local = loc,
         !.global = glo,
         !.var_ptr = ptr,
         !.vars = [i \in 1 .. Len(vars0) |->
                     IF i > first /\ i <= last THEN bc_nums[i - first] ELSE vars0[i]],
         !.values = [i \in 1 .. Len(vals0) |->
                       IF i > first /\ i <= last
                       THEN IF hasVals THEN bc_vals[i - first] ELSE 0
                       ELSE vals0[i]],
         !.nbcs = n + 1]

\* TACSBcMap::addBC(local_var, global_var, bc_nums, bc_vals, _nvals) with
\* _nvals = Len(bc_nums); hasVals is bc_vals != NULL
AddBC(B, local_var, global_var, bc_nums, bc_vals, hasVals) ==
  LET n == B.nbcs
      grow == n + 1 >= B.max_size
      ms == IF grow THEN B.max_size + B.bc_increment ELSE B.max_size
      loc == Store(IF grow THEN Regrown(B.local, n, ms) ELSE B.local, n, local_var)
      glo == Store(IF grow THEN Regrown(B.global, n, ms) ELSE B.global, n, global_var)
      ptr0 == IF grow THEN Regrown(B.var_ptr, n + 1, ms + 1) ELSE B.var_ptr
      first == At(ptr0, n)
      last == first + Len(bc_nums)
      ptr == Store(ptr0, n + 1, last)
      growv == last + 1 >= B.max_var_ptr_size
      mv == IF growv THEN last + B.var_ptr_increment ELSE B.max_var_ptr_size
      vars0 == IF growv THEN Regrown(B.vars, first, mv) ELSE B.vars
      vals0 == IF growv THEN Regrown(B.values, first, mv) ELSE B.values
  IN  [B EXCEPT
         !.max_size = ms,
         !.max_var_ptr_size = mv,
         !.local = loc,
         !.global = glo,
         !.var_ptr = ptr,
         !.vars = [i \in 1 .. Len(vars0) |->
                     IF i > first /\ i <= last THEN bc_nums[i - first] ELSE vars0[i]],
         !.values = [i \in 1 .. Len(vals0) |->
                       IF i > first /\ i <= last
                       THEN IF hasVals THEN bc_vals[i - first] ELSE 0
                       ELSE vals0[i]],
         !.nbcs = n + 1]

\* TACSBcMap::getBCs: the five arrays and the return value
getBCs(B) ==
  [nbcs |-> B.nbcs, local |-> B.local, global |-> B.global,
   var_ptr |-> B.var_ptr, vars |-> B.vars, values |-> B.values]

\* the arguments a caller passes to addBC: a node with its local number on
\* the rank that owns it, a list of its dofs, and values or none
BcNodes == {1, 4}
DofLists == {<<>>, <<1>>, <<0, 1>>}
BcArgs ==
  {a \in {[local_var |-> g - At(owner_range, Owner(g)), global_var |-> g,
           bc_nums |-> d, bc_vals |-> [k \in 1 .. Len(d) |-> BcValue],
           hasVals |-> h] : g \in BcNodes, d \in DofLists, h \in BOOLEAN} :
     a.hasVals => a.bc_nums # <<>>}

addBC(a) ==
  /\ bcmap.nbcs < MaxBCs
  /\ bcmap' = AddBC(bcmap, a.local_var, a.global_var, a.bc_nums, a.bc_vals, a.hasVals)
  /\ ret' = Append(ret, a)
  /\ UNCHANGED <<x, x_ext, x_dep, nops, lastOp, pre>>
  /\ UNCHANGED protoVars
  /\ UNCHANGED <<peer, file, rng, heap>>

InitBcMap ==
  /\ x = [r \in Ranks |-> Ramp(r, 1)]
  /\ x_ext = [r \in Ranks |-> [j \in 1 .. ext_size[r] |-> 1]]
  /\ x_dep = [r \in Ranks |-> [j \in 1 .. dep_size[r] |-> 1]]
  /\ ProtoIdle
  /\ bcmap \in {BcMapNew(e) : e \in -1 .. MaxEstimate}
  /\ ret = <<>>
  /\ peer = Unused /\ file = Unused /\ rng = Unused /\ heap = Unused

NextBcMap == \E a \in BcArgs : addBC(a)

SpecBcMap == InitBcMap /\ [][NextBcMap]_vars

\* C17: getBCs returns as many records as addBC was called, var_ptr starts
\* at 0 and advances by the nvals of each call, and record i holds the local
\* node, global node, dofs and values of the i-th call (zeros where no values
\* were passed), whatever the capacity estimate and whatever has grown since.
C17_BcLog ==
  LET G == getBCs(bcmap)
  IN  /\ G.nbcs = Len(ret)
      /\ At(G.var_ptr, 0) = 0
      /\ \A i \in 0 .. (Len(ret) - 1) :
           LET a == ret[i + 1]
           IN  /\ At(G.var_ptr, i + 1) = At(G.var_ptr, i) + Len(a.bc_nums)
               /\ At(G.local, i) = a.local_var
               /\ At(G.global, i) = a.global_var
               /\ \A k \in 0 .. (Len(a.bc_nums) - 1) :
                    /\ At(G.vars, At(G.var_ptr, i) + k) = a.bc_nums[k + 1]
                    /\ At(G.values, At(G.var_ptr, i) + k) =
                         IF a.hasVals THEN a.bc_vals[k + 1] ELSE 0

\* a list built with estimate 0 or less holds MaxBCs records, with and
\* without values, after its node arrays and its dof arrays have both grown
C17_Witness ==
  /\ bcmap.nbcs = MaxBCs
  /\ bcmap.bc_increment = 1
  /\ bcmap.max_size > 1
  /\ bcmap.max_var_ptr_size > 8
  /\ \E i, j \in DOMAIN ret :
       /\ i < j
       /\ ret[i].hasVals /\ ~ret[j].hasVals /\ ret[j].bc_nums # <<>>
       /\ ret[i].global_var # ret[j].global_var

(***************************************************************************)
(* TACSBVec::applyBCs                                                      *)
(*                                                                         *)
(* Every rank holds the same list of records, built by the addBC calls of  *)
(* ret, or no list at all.                                                 *)
(***************************************************************************)
\* records in the list of a vector that applies them
MaxRecords == 2

\* the object after the addBC calls i, i+1, .. of the list calls
RECURSIVE AddAll(_, _, _)
AddAll(B, calls, i) ==
  IF i > Len(calls) THEN B
  ELSE AddAll(AddBC(B, calls[i].local_var, calls[i].global_var,
                    calls[i].bc_nums, calls[i].bc_vals, calls[i].hasVals),
              calls, i + 1)

CallLists == UNION {[1 .. n -> BcArgs] : n \in 0 .. MaxRecords}

InitBC ==
  /\ x = [r \in Ranks |-> Ramp(r, 1)]
  /\ x_ext = [r \in Ranks |-> [j \in 1 .. ext_size[r] |-> 1]]
  /\ x_dep = [r \in Ranks |-> [j \in 1 .. dep_size[r] |-> 1]]
  /\ ProtoIdle
  /\ \/ \E calls \in CallLists : ret = calls /\ bcmap = AddAll(BcMapNew(0), calls, 1)
     \/ ret = <<>> /\ bcmap = BcNull
  /\ peer = Unused /\ file = Unused /\ rng = Unused /\ heap = Unused

\* the loop over k of applyBCs that writes the stored value (seeded fault)
applyRecord_Value(X, var, G, i) ==
  [j \in 1 .. Len(X) |->
     IF \E k \in At(G.var_ptr, i) .. (At(G.var_ptr, i + 1) - 1) :
          j - 1 = var + At(G.vars, k)
     THEN At(G.values, At(G.var_ptr, i + 1) - 1)
     ELSE X[j]]

\* the loop over k of applyBCs for record i: x[var + vars[k]] = 0.0
applyRecord(X, var, G, i) ==
  [j \in 1 .. Len(X) |->
     IF \E k \in At(G.var_ptr, i) .. (At(G.var_ptr, i + 1) - 1) :
          j - 1 = var + At(G.vars, k)
     THEN 0
     ELSE X[j]]

\* the loop over i of applyBCs, from record i on
RECURSIVE applyLoop(_, _, _, _)
applyLoop(r, G, i, X) ==
  IF i >= G.nbcs THEN X
  ELSE IF At(G.global, i) >= At(owner_range, r) /\ At(G.global, i) < At(owner_range, r + 1)
       THEN applyLoop(r, G, i + 1,
                      applyRecord(X, bsize * (At(G.global, i) - At(owner_range, r)), G, i))
       ELSE applyLoop(r, G, i + 1, X)

applyBCs(r) ==
  LocalCall(r, "applyBCs", NoArgs,
            IF ~bcmap.null
            THEN [Arrays(r) EXCEPT !.x = applyLoop(r, getBCs(bcmap), 0, x[r])]
            ELSE Arrays(r),
            ghostLog[r])

NextBC ==
  \E r \in Ranks :
    \/ applyBCs(r)
    \/ \E val \in 1 .. MaxVal : set(r, val)

SpecBC == InitBC /\ [][NextBC]_vars

\* entry j (from 1) of rank r's local array is a dof of a record of the list
Fixed(r, j) ==
  \E i \in DOMAIN ret :
    /\ IsOwned(r, ret[i].global_var)
    /\ \E k \in DOMAIN ret[i].bc_nums :
         j - 1 = bsize * (ret[i].global_var - At(owner_range, r)) + ret[i].bc_nums[k]

\* C14: when applyBCs returns on a rank, every entry of its local array that
\* is a dof of a record of the list is 0 (not the stored value), every other
\* entry is as before the call, and so are its ghost and dep arrays.
C14_ApplyBCs ==
  \A r \in Ranks :
    lastOp[r] = "applyBCs" =>
      /\ \A j \in 1 .. size[r] :
           x[r][j] = IF Fixed(r, j) THEN 0 ELSE pre[r].x[j]
      /\ x_ext[r] = pre[r].x_ext
      /\ x_dep[r] = pre[r].x_dep

\* applyBCs zeroed a dof with a stored nonzero value on a rank and left
\* another entry of that rank nonzero, with nonzero ghosts
C14_Witness ==
  \E r \in Ranks :
    /\ lastOp[r] = "applyBCs"
    /\ \E i \in DOMAIN ret : IsOwned(r, ret[i].global_var) /\ ret[i].hasVals
    /\ \E j \in 1 .. size[r] : Fixed(r, j) /\ pre[r].x[j] # 0 /\ x[r][j] = 0
    /\ \E j \in 1 .. size[r] : ~Fixed(r, j) /\ x[r][j] # 0
    /\ ~IsZero(x_ext[r])

(***************************************************************************)
(* TACSBVec::setRand                                                       *)
(*                                                                         *)
(* rng[r] is the state of rand() in the process of rank r and the number   *)
(* of draws made from it.  heap.var_map is the owner map of the vector:    *)
(* the partition varies here, and x[r] has the size the partition gives.   *)
(***************************************************************************)
\* largest seed passed to srand
MaxSeed == 3
\* nodes of the vector that is filled
NGlobal == 5
\* rand() is a generator of full period over 0 .. RAND_MAX
RAND_MAX == 15
rand(st) == (5 * st + 3) % (RAND_MAX + 1)

\* lower + ((upper - lower)*rand())/(1.0*RAND_MAX), for the draw d
Uniform(lower, upper, d) == lower + ((upper - lower) * d) \div RAND_MAX

\* n calls of rand() whose values are dropped
RECURSIVE Discard(_, _)
Discard(g, n) ==
  IF n <= 0 THEN g
  ELSE Discard([state |-> rand(g.state), draws |-> g.draws + 1], n - 1)

\* for ( i = 0; i < size; i++ ) x[i] = lower + ...rand()..., from entry i on
RECURSIVE Fill(_, _, _, _, _)
Fill(g, X, i, lower, upper) ==
  IF i >= Len(X) THEN [g |-> g, x |-> X]
  ELSE Fill([state |-> rand(g.state), draws |-> g.draws + 1],
            [X EXCEPT ![i + 1] = Uniform(lower, upper, rand(g.state))],
            i + 1, lower, upper)

\* the loop over k of setRand on rank `rank` of nranks, R the owner range
RECURSIVE setRandLoop(_, _, _, _, _, _, _, _)
setRandLoop(R, nranks, rank, k, g, X, lower, upper) ==
  IF k >= nranks THEN [g |-> g, x |-> X]
  ELSE IF k # rank
       THEN setRandLoop(R, nranks, rank, k + 1,
                        Discard(g, bsize * At(R, k + 1) - bsize * At(R, k)),
                        X, lower, upper)
       ELSE LET F == Fill(g, X, 0, lower, upper)
            IN  setRandLoop(R, nranks, rank, k + 1, F.g, F.x, lower, upper)

\* setRand that takes its draws from the head of the sequence on every
\* rank, as for a vector without owner map (seeded fault)
setRandOn_NoSkip(M, nranks, rank, g, X, lower, upper) ==
  Fill(g, X, 0, lower, upper)

\* setRand on a vector with owner map M (M.null: built without one)
setRandOn(M, nranks, rank, g, X, lower, upper) ==
  IF M.null THEN Fill(g, X, 0, lower, upper)
  ELSE setRandLoop(M.owner_range, nranks, rank, 0, g, X, lower, upper)

\* the owner ranges of NGlobal nodes over the ranks
Partitions ==
  {<<0, a, b, NGlobal>> : a \in 0 .. NGlobal, b \in 0 .. NGlobal} \cap
  {R \in Seq(0 .. NGlobal) : Len(R) = mpi_size + 1 /\ R[2] <= R[3]}

\* the intervals [lower, upper] a caller passes
Intervals == {<<0, RAND_MAX>>, <<1, 2 * RAND_MAX + 1>>}

InitRand ==
  /\ \/ \E R \in Partitions :
          /\ heap = [var_map |-> [null |-> FALSE, owner_range |-> R]]
          /\ x = [r \in Ranks |-> Zeros(bsize * (At(R, r + 1) - At(R, r)))]
     \/ /\ heap = [var_map |-> [null |-> TRUE, owner_range |-> <<>>]]
        /\ x = [r \in Ranks |-> Zeros(size[r])]
  /\ x_ext = [r \in Ranks |-> <<>>]
  /\ x_dep = [r \in Ranks |-> <<>>]
  /\ ProtoIdle
  /\ \E seed \in 0 .. MaxSeed :
       /\ rng = [r \in Ranks |-> [state |-> seed, draws |-> 0]]
       /\ ret = seed
  /\ peer = Unused /\ file = Unused /\ bcmap = Unused

setRand(r, lower, upper) ==
  LET c == [kind |-> "setRand", lower |-> lower, upper |-> upper]
      S == setRandOn(heap.var_map, mpi_size, r, rng[r], x[r], lower, upper)
  IN  /\ MayBegin(r, c)
      /\ Begun(r, c)
      /\ x' = [x EXCEPT ![r] = S.x]
      /\ rng' = [rng EXCEPT ![r] = S.g]
      /\ lastOp' = [lastOp EXCEPT ![r] = "setRand"]
      /\ pre' = [pre EXCEPT ![r] = [x |-> x[r], x_ext |-> x_ext[r],
                                    x_dep |-> x_dep[r], args |-> NoArgs]]
      /\ UNCHANGED <<x_ext, x_dep, pc, chan, nops, hist, lastMod, ghostLog>>
      /\ UNCHANGED <<peer, ret, file, bcmap, heap>>

NextRand ==
  \E r \in Ranks : \E I \in Intervals : setRand(r, I[1], I[2])

SpecRand == InitRand /\ [][NextRand]_vars

\* the run of the first n calls of order on one rank that owns every node:
\* the generator after them and the array the last of them leaves
RECURSIVE SingleRank(_, _)
SingleRank(seed, n) ==
  IF n = 0 THEN [g |-> [state |-> seed, draws |-> 0], x |-> Zeros(bsize * NGlobal)]
  ELSE LET P == SingleRank(seed, n - 1)
       IN  setRandOn([null |-> FALSE, owner_range |-> <<0, NGlobal>>], 1, 0,
                     P.g, P.x, order[n].lower, order[n].upper)

\* C15: on a vector with an owner map, seeded alike on every rank, a rank
\* that has returned from its n-th setRand holds in local entry j what the
\* single-rank run holds at global position bsize*owner_range[r] + j, and has
\* made n * NGlobal * bsize draws.
C15_SetRandPartition ==
  \A r \in Ranks :
    (~heap.var_map.null /\ cpos[r] >= 1) =>
      LET One == SingleRank(ret, cpos[r])
          R == heap.var_map.owner_range
      IN  /\ \A j \in 1 .. Len(x[r]) : x[r][j] = One.x[bsize * At(R, r) + j]
          /\ rng[r].draws = cpos[r] * NGlobal * bsize
          /\ rng[r] = One.g

\* every rank owns a node, sizes differ, and every rank has returned from a
\* second setRand with values that differ within the rank and across ranks
C15_Witness ==
  /\ ~heap.var_map.null
  /\ \A r \in Ranks : Len(x[r]) > 0 /\ cpos[r] = 2
  /\ Len(x[0]) # Len(x[1])
  /\ x[0][1] # x[1][1]
  /\ x[1][1] # x[1][2]
  /\ x[2] # pre[2].x

(***************************************************************************)
(* The two constructors, the destructor, and the assembly calls on a       *)
(* vector without plan and dependent table                                 *)
(*                                                                         *)
(* heap is the memory of one process: refs the reference counts of the     *)
(* collaborators, vecs the vectors built so far.  A pointer member is      *)
(* "null", "obj" (it points to the collaborator of its name) or "uninit"   *)
(* (no constructor statement assigned it).  faults collects the members    *)
(* that were dereferenced while null or read while uninit; crashed says    *)
(* the process has died of it.                                             *)
(***************************************************************************)
\* vectors built in one process
MaxVectors == 2
\* local entries of a vector built from a communicator and a size
BareSize == 2

Collaborators ==
  {"var_map", "bcs", "ext_dist", "ext_indices", "ext_ctx", "dep_nodes"}

\* the counts before any vector exists: the caller holds each object it
\* passes in, the plan holds its index set, no context exists yet
BaseRefs ==
  [c \in Collaborators |-> IF c = "ext_ctx" THEN 0 ELSE 1]

Pointers == {"null", "obj"}

\* TACSBVec::TACSBVec(map, bsize, bcs, ext_dist, dep_nodes), map != NULL
Constructed1(bcsA, distA, depA) ==
  [ctor |-> 1, live |-> TRUE,
   var_map |-> "obj", bcs |-> bcsA,
   ext_dist |-> distA, ext_indices |-> distA, ext_ctx |-> distA,
   dep_nodes |-> depA,
   x |-> Zeros(BareSize),
   x_ext |-> IF distA = "obj" THEN Zeros(bsize) ELSE <<>>,
   x_dep |-> IF depA = "obj" THEN Zeros(bsize) ELSE <<>>,
   has_x_ext |-> distA = "obj", has_x_dep |-> depA = "obj"]

\* the holds the first constructor takes
Held1(refs, bcsA, distA, depA) ==
  [c \in Collaborators |->
     refs[c] + (IF \/ c = "var_map"
                   \/ c = "bcs" /\ bcsA = "obj"
                   \/ c \in {"ext_dist", "ext_indices", "ext_ctx"} /\ distA = "obj"
                   \/ c = "dep_nodes" /\ depA = "obj"
                THEN 1 ELSE 0)]

\* TACSBVec::TACSBVec(comm, size, bsize): ext_indices is not assigned
Constructed2 ==
  [ctor |-> 2, live |-> TRUE,
   var_map |-> "null", bcs |-> "null",
   ext_dist |-> "null", ext_indices |-> "uninit", ext_ctx |-> "null",
   dep_nodes |-> "null",
   x |-> Zeros(BareSize), x_ext |-> <<>>, x_dep |-> <<>>,
   has_x_ext |-> FALSE, has_x_dep |-> FALSE]

InitLife ==
  /\ x = [r \in Ranks |-> Zeros(size[r])]
  /\ x_ext = [r \in Ranks |-> Zeros(ext_size[r])]
  /\ x_dep = [r \in Ranks |-> Zeros(dep_size[r])]
  /\ ProtoIdle
  /\ heap = [refs |-> BaseRefs, vecs |-> <<>>, faults |-> {}, crashed |-> FALSE,
             last |-> [name |-> "none", vec |-> 0, x |-> <<>>]]
  /\ peer = Unused /\ ret = Unused /\ file = Unused /\ bcmap = Unused
  /\ rng = Unused

\* a step of the process changes heap only
InProcess ==
  /\ ~heap.crashed
  /\ UNCHANGED <<x, x_ext, x_dep, nops, lastOp, pre>>
  /\ UNCHANGED protoVars
  /\ UNCHANGED <<peer, ret, file, bcmap, rng>>

Called(name, i) == [name |-> name, vec |-> i, x |-> IF i = 0 THEN <<>> ELSE heap.vecs[i].x]

\* new TACSBVec(map, bsize, bcs, ext_dist, dep_nodes), with the owner map
\* the constructor requires (var_map->incref() is its second statement)
construct1(bcsA, distA, depA) ==
  /\ InProcess
  /\ Len(heap.vecs) < MaxVectors
  /\ heap' = [heap EXCEPT
                !.refs = Held1(@, bcsA, distA, depA),
                !.vecs = Append(@, Constructed1(bcsA, distA, depA)),
                !.last = Called("construct1", 0)]

\* new TACSBVec(comm, size, bsize)
construct2 ==
  /\ InProcess
  /\ Len(heap.vecs) < MaxVectors
  /\ heap' = [heap EXCEPT !.vecs = Append(@, Constructed2),
                          !.last = Called("construct2", 0)]

\* refs after p->decref(), for the member p of the name c
Decref(refs, v, c) ==
  IF v[c] = "obj" THEN [refs EXCEPT ![c] = @ - 1] ELSE refs

\* the statements of the destructor but the one on ext_indices
ReleasedButIndices(refs, v) ==
  Decref(Decref(Decref(Decref(Decref(refs, v, "var_map"), v, "bcs"),
                       v, "ext_dist"), v, "ext_ctx"), v, "dep_nodes")

\* delete vec.  if (ext_indices) reads a member the second constructor left
\* unassigned: it holds 0, or what the memory held before, which is the
\* address of the index set or of nothing that can be used
destroy(i) ==
  /\ InProcess
  /\ i \in DOMAIN heap.vecs
  /\ heap.vecs[i].live
  /\ LET v == heap.vecs[i]
         R == ReleasedButIndices(heap.refs, v)
         gone == [heap.vecs EXCEPT ![i].live = FALSE]
     IN  IF v.ext_indices = "uninit"
         THEN \/ heap' = [heap EXCEPT
                            !.refs = R, !.vecs = gone,
                            !.faults = @ \cup {"ext_indices"},
                            !.last = Called("destroy", i)]
              \/ heap' = [heap EXCEPT
                            !.refs = [R EXCEPT !["ext_indices"] = @ - 1],
                            !.vecs = gone,
                            !.faults = @ \cup {"ext_indices"},
                            !.last = Called("destroy", i)]
              \/ heap' = [heap EXCEPT
                            !.faults = @ \cup {"ext_indices"},
                            !.crashed = TRUE,
                            !.last = Called("destroy", i)]
         ELSE heap' = [heap EXCEPT
                         !.refs = Decref(R, v, "ext_indices"),
                         !.vecs = gone,
                         !.last = Called("destroy", i)]

\* vec->set(val)
setOn(i, val) ==
  /\ InProcess
  /\ i \in DOMAIN heap.vecs
  /\ heap.vecs[i].live
  /\ heap' = [heap EXCEPT !.vecs[i].x = [j \in 1 .. BareSize |-> val],
                          !.last = Called("set", i)]

\* the vectors the assembly calls are made on here: no plan, no dependent
\* table
NoPlan(i) ==
  /\ i \in DOMAIN heap.vecs
  /\ heap.vecs[i].live
  /\ heap.vecs[i].ext_dist = "null"
  /\ heap.vecs[i].dep_nodes = "null"

\* beginSetValues on such a vector: var_map->getOwnerRange(&owner_range) is
\* its first statement on every path; through a null var_map the call reads
\* no memory that is used later, or kills the process
beginSetValuesNoPlan(i, op) ==
  /\ InProcess
  /\ NoPlan(i)
  /\ IF heap.vecs[i].var_map = "null"
     THEN \/ heap' = [heap EXCEPT !.faults = @ \cup {"var_map"},
                                  !.last = Called("beginSetValues", i)]
          \/ heap' = [heap EXCEPT !.faults = @ \cup {"var_map"},
                                  !.crashed = TRUE,
                                  !.last = Called("beginSetValues", i)]
     ELSE heap' = [heap EXCEPT !.last = Called("beginSetValues", i)]

\* endSetValues on such a vector: if (ext_dist) and if (x_ext) both fail
endSetValuesNoPlan(i, op) ==
  /\ InProcess
  /\ NoPlan(i)
  /\ heap' = [heap EXCEPT !.last = Called("endSetValues", i)]

\* beginDistributeValues on such a vector: if (ext_dist) fails
beginDistributeValuesNoPlan(i) ==
  /\ InProcess
  /\ NoPlan(i)
  /\ heap' = [heap EXCEPT !.last = Called("beginDistributeValues", i)]

\* endDistributeValues on such a vector: if (ext_dist) and if (dep_nodes)
\* both fail
endDistributeValuesNoPlan(i) ==
  /\ InProcess
  /\ NoPlan(i)
  /\ heap' = [heap EXCEPT !.last = Called("endDistributeValues", i)]

NextLife ==
  \/ \E bcsA, distA, depA \in Pointers : construct1(bcsA, distA, depA)
  \/ construct2
  \/ \E i \in 1 .. MaxVectors : destroy(i)
  \/ \E i \in 1 .. MaxVectors, val \in 1 .. MaxVal : setOn(i, val)
  \/ \E i \in 1 .. MaxVectors, op \in Ops : beginSetValuesNoPlan(i, op)
  \/ \E i \in 1 .. MaxVectors, op \in Ops : endSetValuesNoPlan(i, op)
  \/ \E i \in 1 .. MaxVectors : beginDistributeValuesNoPlan(i)
  \/ \E i \in 1 .. MaxVectors : endDistributeValuesNoPlan(i)

SpecLife == InitLife /\ [][NextLife]_vars

AssemblyCalls ==
  {"beginSetValues", "endSetValues", "beginDistributeValues", "endDistributeValues"}

\* C18: when one of the four assembly calls was made on a vector built from
\* a communicator and a size, the call has returned, the local array is as
\* before the call, and no null collaborator was accessed.
C18_NullCollaborators ==
  (/\ heap.last.name \in AssemblyCalls
   /\ heap.vecs[heap.last.vec].ctor = 2) =>
     /\ ~heap.crashed
     /\ heap.vecs[heap.last.vec].x = heap.last.x
     /\ "var_map" \notin heap.faults

\* the vectors alive that hold a hold on collaborator c
Holders(c) ==
  {i \in DOMAIN heap.vecs : heap.vecs[i].live /\ heap.vecs[i][c] = "obj"}

\* C19: whatever was built and destroyed, by either constructor and with
\* any collaborators null, every collaborator's count is its count before
\* plus one for each living vector that holds it, so it is back at the count
\* before once every vector is destroyed; and the destructor has read no
\* member that the constructor did not assign, nor has a null collaborator
\* been used.
C19_HoldRelease ==
  /\ \A c \in Collaborators :
       heap.refs[c] = BaseRefs[c] + Cardinality(Holders(c))
  /\ heap.faults = {}
  /\ ~heap.crashed

(***************************************************************************)
(* Progress of the two-phase exchanges                                     *)
(*                                                                         *)
(* A rank inside endSetValues or endDistributeValues goes on as soon as    *)
(* the messages it waits for are there, and a rank that is behind in the   *)
(* global order of the collectives does make the call that is next.        *)
(***************************************************************************)
\* rank r, behind in the global order, makes the begin call that is next
Follow(r) ==
  /\ cpos[r] < Len(order)
  /\ \/ \E op \in Ops : beginSetValues(r, op)
     \/ beginDistributeValues(r)

FairProgress ==
  \A r \in Ranks :
    /\ WF_vars(\E op \in Ops : endSetValues(r, op))
    /\ WF_vars(endDistributeValues(r))
    /\ WF_vars(Follow(r))

\* the collectives, between local calls that deposit no block
NextProgress ==
  \E r \in Ranks :
    \/ \E val \in 1 .. MaxVal : set(r, val)
    \/ \E op \in Ops : beginSetValues(r, op)
    \/ \E op \in Ops : endSetValues(r, op)
    \/ beginDistributeValues(r)
    \/ endDistributeValues(r)

SpecProgress == Init /\ [][NextProgress]_vars /\ FairProgress

\* an idle rank with collectives left can make the begin call that is next
\* in the global order, wherever the other ranks are
BeginReturns ==
  \A r \in Ranks :
    (pc[r] = "idle" /\ cpos[r] < MaxCollectives) =>
      IF cpos[r] < Len(order)
      THEN IF order[cpos[r] + 1].kind = "set"
           THEN ENABLED beginSetValues(r, order[cpos[r] + 1].op)
           ELSE ENABLED beginDistributeValues(r)
      ELSE /\ \A op \in Ops : ENABLED beginSetValues(r, op)
           /\ ENABLED beginDistributeValues(r)

\* C21: a begin call returns whether or not any peer has entered the
\* matching call, and, the ranks making the pairs in one global order with
\* one op, a rank inside an end call always returns from it.
C21_ExchangeProgress ==
  /\ []BeginReturns
  /\ \A r \in Ranks : (pc[r] # "idle") ~> (pc[r] = "idle")

\* a rank has returned from an end call in which it waited for the message
\* of a peer, while another rank has not yet begun that collective
C21_Witness ==
  \E r \in Ranks : \E t \in Ranks :
    /\ pc[r] = "idle"
    /\ cpos[r] >= 1
    /\ Cur(r).done
    /\ (IF Cur(r).kind = "set" THEN GhostersOf(r) ELSE OwnersFor(r)) # {}
    /\ cpos[t] < cpos[r]

(***************************************************************************)
(* Progress of dot and mdot                                                *)
(*                                                                         *)
(* A rank inside the all-reduce of dot or mdot leaves it once every rank's *)
(* contribution is there, and a rank that is behind in the global order of *)
(* the reductions does make the call that is next.                         *)
(***************************************************************************)
\* rank r, behind in the global order, makes the dot or mdot that is next
FollowDot(r) ==
  /\ cpos[r] < Len(order)
  /\ \/ \E j \in PeerIds : dot(r, j)
     \/ \E js \in VecLists : mdot(r, js)

FairDot ==
  \A r \in Ranks :
    /\ WF_vars(dotReduced(r))
    /\ WF_vars(mdotReduced(r))
    /\ WF_vars(FollowDot(r))

SpecDotFair == InitAlgebra /\ [][NextDot]_vars /\ FairDot

\* C22: when every rank calls dot, no rank stays in the all-reduce of dot
\* forever, whatever the size and type checks say on the ranks.
C22_DotCompletes ==
  \A r \in Ranks : (pc[r] = "dot") ~> (pc[r] = "idle")


(***************************************************************************)
(* Repeated assembly                                                       *)
(***************************************************************************)

\* every rank has completed rounds k and k + 1 as ADD assemblies and no
\* rank's arrays changed between its return from the first endSetValues and
\* its second beginSetValues
TwoAssemblies(k) ==
  \A q \in Ranks :
    /\ SetDone(q, k, ADD_VALUES) /\ SetDone(q, k + 1, ADD_VALUES)
    /\ hist[q][k + 1].x0 = hist[q][k].x1
    /\ hist[q][k + 1].ext0 = hist[q][k].ext1
    /\ hist[q][k + 1].dep0 = hist[q][k].dep1

\* C23: when beginSetValues(ADD); endSetValues(ADD) is repeated on all ranks
\* with no deposit in between, the second pair leaves every rank's local
\* array as the first pair left it.
C23_NoResidue ==
  \A k \in Rounds :
    TwoAssemblies(k) =>
      \A r \in Ranks : hist[r][k + 1].x1 = hist[r][k + 1].x0


(***************************************************************************)
(* Array bounds of addBC                                                   *)
(***************************************************************************)

\* the members max_size and max_var_ptr_size are the capacities of the
\* arrays they describe
Capacities(B) ==
  /\ Len(B.local) = B.max_size /\ Len(B.global) = B.max_size
  /\ Len(B.var_ptr) = B.max_size + 1
  /\ Len(B.vars) = B.max_var_ptr_size /\ Len(B.values) = B.max_var_ptr_size

\* the writes of the addBC call that led from B to C with nvals dofs:
\* local[nbcs] and global[nbcs], var_ptr[nbcs + 1], and vars[i], values[i]
\* for var_ptr[nbcs] <= i < var_ptr[nbcs] + nvals, against the capacities the
\* arrays have when they are written
WritesInBounds(B, C, nvals) ==
  LET n == B.nbcs
  IN  /\ n >= 0 /\ n < C.max_size
      /\ n + 1 <= C.max_size
      /\ Capacities(C)
      /\ LET first == At(B.var_ptr, n)
         IN  \A i \in first .. (first + nvals - 1) :
               i >= 0 /\ i < C.max_var_ptr_size

\* C24: a fresh list has nbcs <= max_size, and every addBC call writes
\* local and global at an index below max_size, var_ptr at an index of at
\* most max_size and vars and values at indices below max_var_ptr_size (the
\* capacities at the time of the write), and leaves nbcs <= max_size.
C24_AddBCInBounds ==
  /\ bcmap.nbcs <= bcmap.max_size /\ Capacities(bcmap)
  /\ [][(\E a \in BcArgs : addBC(a)) =>
          /\ WritesInBounds(bcmap, bcmap', Len(ret'[Len(ret')].bc_nums))
          /\ bcmap'.nbcs <= bcmap'.max_size]_vars

\* a list built with estimate 0 or less, whose latest addBC call was made
\* with the node arrays full and wrote dofs at indices past the first
\* capacity of vars, after both the node arrays and the dof arrays had grown
C24_Witness ==
  /\ bcmap.bc_increment = 1
  /\ bcmap.nbcs = MaxBCs
  /\ bcmap.max_size > 1
  /\ bcmap.max_var_ptr_size > bcmap.var_ptr_increment
  /\ At(bcmap.var_ptr, bcmap.nbcs) > bcmap.var_ptr_increment
  /\ At(bcmap.var_ptr, bcmap.nbcs) > At(bcmap.var_ptr, bcmap.nbcs - 1)

=============================================================================
